---- MODULE Spec2Model ----
(***************************************************************************)
(* A model of the ansible-lint fixer scripts (scripts/shared.py and the    *)
(* fixer passes built on it).  Text is modelled as sequences of one-       *)
(* character strings, so that scanning, stripping, splitting and joining   *)
(* are computed character by character as the Python code computes them.   *)
(* Python indexes from 0, the sequences here from 1: position k here is    *)
(* index k - 1 there.                                                      *)
(***************************************************************************)
EXTENDS Integers, Sequences, FiniteSets, TLC

VARIABLES
    line,        \* split_code_and_comment: the line being scanned
    i,           \* ... position of the character the loop examines next
    in_single,   \* ... inside a single-quoted span
    in_double,   \* ... inside a double-quoted span
    scan_ret,    \* ... None while scanning, then the returned <<code, comment>>
    paths,       \* iter_yaml_files: the input paths
    p_idx,       \* ... position in paths of the path `p` the outer loop is at
    in_rglob,    \* ... inside `for sub in path.rglob('*')`
    rglob,       \* ... what path.rglob('*') has still to produce
    yielded,     \* ... the paths yielded so far, in order
    walk_done,   \* ... the generator is exhausted
    doc_lines,   \* ensure_document_start: the list of lines first passed in
    doc_runs,    \* ... the calls made so far: argument, result, changed flag
    nl_text,     \* ensure_final_newline: the text first passed in
    nl_runs,     \* ... the calls made so far: argument, result, changed flag
    fixer,       \* main: the fixer script that runs
    pc,          \* ... where main is: "for", "next", "body" or "exit"
    checked,     \* ... main's counter of files checked
    changed,     \* ... main's counter of files changed
    file,        \* ... the file the loop handled last: what fix_file read, wrote, returned
    stdout,      \* ... the line printed last
    exit_code,   \* ... NotExited, then what main returns
    fs,          \* ... the files iter_yaml_files finds, in its order, as they are on disk
    call_fn,     \* a line function of a fixer: None, then the function called
    call_arg,    \* ... the line it is called with
    call_ret     \* ... the line it returned

scanvars == <<line, i, in_single, in_double, scan_ret>>

walkvars == <<paths, p_idx, in_rglob, rglob, yielded, walk_done>>

docvars == <<doc_lines, doc_runs>>

nlvars == <<nl_text, nl_runs>>

mainvars == <<fixer, pc, checked, changed, file, stdout, exit_code, fs>>

callvars == <<call_fn, call_arg, call_ret>>

vars == <<scanvars, walkvars, docvars, nlvars, mainvars, callvars>>

None == "None"

\* ------------------------------------------------------------------------
\* Bounds of the model.

MaxLineLen == 5

MaxPaths == 2

\* Lines in a list given to ensure_document_start.
MaxDocLines == 3

\* Characters in a text given to ensure_final_newline.
MaxTextLen == 4

\* Successive applications of a normalizer to its own output.
MaxApply == 2

\* Lines in a file given to a fixer.
MaxFileLines == 2

\* Files one run of a fixer's main finds.
MaxFiles == 3

\* Pieces in a line given to the line functions of fix_colons.
MaxColonsPieces == 4

\* Pieces in a line given to fix_truthy.fix_truth_values_in_line.
MaxTruthyPieces == 4

\* Pieces in a line given to the line functions of fix_inside_brackets.
MaxBracketsPieces == 4

\* Lines in a list given to the line loop of fix_fqcn.fix_file.
MaxFqcnLines == 3

\* Pieces in a line given to the line functions of fix_indent_quotes.
MaxQuotesPieces == 4

\* Pieces in a code given to fix_line_length_vars.fix_line.
MaxWrapPieces == 4

\* Pieces in a line given to the line functions of fix_ansible_lint_easy.
MaxEasyPieces == 4

\* Lines in a file given to fix_ansible_lint_easy.fix_file.
MaxEasyLines == 3

\* ------------------------------------------------------------------------
\* Characters and generic sequence helpers.

SQ == "'"
DQ == "\""
HASH == "#"
BSLASH == "\\"
NL == "\n"
CR == "\r"
SP == " "
TAB == "\t"

Min(S) == CHOOSE x \in S : \A y \in S : x <= y

Max(S) == CHOOSE x \in S : \A y \in S : x >= y

\* All sequences over alphabet A of length at most n.
SeqsUpTo(A, n) == UNION {[1..m -> A] : m \in 0..n}

\* Python slices line[:k-1] and line[k-1:] for a 1-based position k.
Before(s, k) == SubSeq(s, 1, k - 1)

From(s, k) == SubSeq(s, k, Len(s))

\* ------------------------------------------------------------------------
\* shared.split_code_and_comment

\* The characters the scanner distinguishes, and one it does not.
ScanAlphabet == {SQ, DQ, HASH, BSLASH, "a"}

\* End-to-end scenario lines of the specification (section 8, 1 and 3).
Scenario1Line ==
    <<" ", " ", "n", "a", "m", "e", ":", " ", " ", " ", "v", "i", "m",
      " ", " ", "#", " ", "c", "o", "m", "m", "e", "n", "t">>

Scenario3Line ==
    <<"k", "e", "y", ":", " ", "\"", "i", "t", "'", "s", " ", "f", "i",
      "n", "e", "\"", " ", " ", "#", " ", "k", "e", "e", "p", "'", " ",
      "t", "h", "i", "s">>

ScanLines == SeqsUpTo(ScanAlphabet, MaxLineLen) \cup {Scenario1Line, Scenario3Line}

\* `i == 0 or line[i - 1] != '\\'`, negated: the character at k follows a backslash.
escaped(l, k) == k > 1 /\ l[k - 1] = BSLASH

\* Faulty variant: a single quote toggles even inside a double-quoted span.
next_in_single_any(l, k, ins, ind) ==
    IF l[k] = SQ
    THEN (IF ~escaped(l, k) THEN ~ins ELSE ins)
    ELSE ins

\* The first branch of the loop body: the new value of in_single.
next_in_single(l, k, ins, ind) ==
    IF l[k] = SQ /\ ~ind
    THEN (IF ~escaped(l, k) THEN ~ins ELSE ins)
    ELSE ins

\* Faulty variant: a double quote toggles even after a backslash.
next_in_double_escaped(l, k, ins, ind) ==
    IF l[k] = SQ /\ ~ind
    THEN ind
    ELSE IF l[k] = DQ /\ ~ins THEN ~ind ELSE ind

\* The second branch (an elif: taken only when the first is not).
next_in_double(l, k, ins, ind) ==
    IF l[k] = SQ /\ ~ind
    THEN ind
    ELSE IF l[k] = DQ /\ ~ins
         THEN (IF ~escaped(l, k) THEN ~ind ELSE ind)
         ELSE ind

\* Faulty variant: a '#' inside double quotes starts a comment.
is_comment_start_in_double(l, k, ins, ind) == l[k] = HASH /\ ~ins

\* Faulty variant: a '#' after a backslash does not start a comment.
is_comment_start_unescaped(l, k, ins, ind) ==
    l[k] = HASH /\ ~ins /\ ~ind /\ ~escaped(l, k)

\* Faulty variant: a '#' inside single quotes starts a comment.
is_comment_start_in_single(l, k, ins, ind) ==
    /\ ~(l[k] = SQ /\ ~ind)
    /\ ~(l[k] = DQ /\ ~ins)
    /\ l[k] = HASH /\ ~ind

\* The third branch: the loop returns at this character.
is_comment_start(l, k, ins, ind) ==
    /\ ~(l[k] = SQ /\ ~ind)
    /\ ~(l[k] = DQ /\ ~ins)
    /\ l[k] = HASH /\ ~ins /\ ~ind

\* Faulty variant: the '#' itself is dropped from the comment.
split_at_drop(l, k) == <<Before(l, k), From(l, k + 1)>>

\* `return line[:i], line[i:]`
split_at(l, k) == <<Before(l, k), From(l, k)>>

\* `return line, ''`
no_split(l) == <<l, <<>>>>

RECURSIVE scan_from(_, _, _, _)
scan_from(l, k, ins, ind) ==
    IF k > Len(l) THEN no_split(l)
    ELSE IF is_comment_start(l, k, ins, ind) THEN split_at(l, k)
    ELSE scan_from(l, k + 1, next_in_single(l, k, ins, ind),
                   next_in_double(l, k, ins, ind))

\* The function as its callers use it.
split_code_and_comment(l) == scan_from(l, 1, FALSE, FALSE)

ScanIdle ==
    /\ line = <<>>
    /\ i = 0
    /\ in_single = FALSE
    /\ in_double = FALSE
    /\ scan_ret = None

WalkIdle ==
    /\ paths = <<>>
    /\ p_idx = 0
    /\ in_rglob = FALSE
    /\ rglob = {}
    /\ yielded = <<>>
    /\ walk_done = FALSE

DocIdle == doc_lines = <<>> /\ doc_runs = <<>>

NlIdle == nl_text = <<>> /\ nl_runs = <<>>

\* No file handled yet.
NoFile ==
    [bytes |-> <<>>, original |-> <<>>, wrote |-> FALSE, written |-> <<>>,
     disk |-> <<>>, ret |-> FALSE]

NotExited == -1

MainIdle ==
    /\ fixer = None
    /\ pc = "exit"
    /\ checked = 0
    /\ changed = 0
    /\ file = NoFile
    /\ stdout = None
    /\ exit_code = NotExited
    /\ fs = <<>>

CallIdle == call_fn = None /\ call_arg = <<>> /\ call_ret = <<>>

InitScan ==
    /\ line \in ScanLines
    /\ i = 1
    /\ in_single = FALSE
    /\ in_double = FALSE
    /\ scan_ret = None
    /\ WalkIdle
    /\ DocIdle
    /\ NlIdle
    /\ MainIdle
    /\ CallIdle

\* One iteration of `for i, ch in enumerate(line)` that does not return.
ScanChar ==
    /\ scan_ret = None
    /\ i <= Len(line)
    /\ ~is_comment_start(line, i, in_single, in_double)
    /\ in_single' = next_in_single(line, i, in_single, in_double)
    /\ in_double' = next_in_double(line, i, in_single, in_double)
    /\ i' = i + 1
    /\ UNCHANGED <<line, scan_ret, walkvars, docvars, nlvars, mainvars, callvars>>

\* The iteration that finds an unquoted '#' and returns.
ScanReturnSplit ==
    /\ scan_ret = None
    /\ i <= Len(line)
    /\ is_comment_start(line, i, in_single, in_double)
    /\ scan_ret' = split_at(line, i)
    /\ UNCHANGED <<line, i, in_single, in_double, walkvars, docvars, nlvars, mainvars, callvars>>

\* The loop ran off the end of the line.
ScanReturnWhole ==
    /\ scan_ret = None
    /\ i > Len(line)
    /\ scan_ret' = no_split(line)
    /\ UNCHANGED <<line, i, in_single, in_double, walkvars, docvars, nlvars, mainvars, callvars>>

NextScan == ScanChar \/ ScanReturnSplit \/ ScanReturnWhole

SpecScan == InitScan /\ [][NextScan]_vars

ScanDone == scan_ret # None

code == scan_ret[1]

comment == scan_ret[2]

\* ------------------------------------------------------------------------
\* Quoted spans of a line, defined from the data model (a span is delimited
\* by matching unescaped quote characters; an unterminated one runs to the
\* end of the line), independently of the scanner's two booleans.

unescaped_quote_at(l, k) == l[k] \in {SQ, DQ} /\ ~(k > 1 /\ l[k - 1] = BSLASH)

RECURSIVE QuoteSpansFrom(_, _)
QuoteSpansFrom(l, k) ==
    LET opens == {p \in k..Len(l) : unescaped_quote_at(l, p)}
    IN  IF opens = {} THEN {}
        ELSE LET p == Min(opens)
                 closes == {q \in (p + 1)..Len(l) : l[q] = l[p] /\ l[q - 1] # BSLASH}
             IN  IF closes = {}
                 THEN {[open |-> p, close |-> Len(l) + 1, closed |-> FALSE]}
                 ELSE {[open |-> p, close |-> Min(closes), closed |-> TRUE]}
                      \cup QuoteSpansFrom(l, Min(closes) + 1)

QuoteSpans(l) == QuoteSpansFrom(l, 1)

InsideSpan(l, k) == \E s \in QuoteSpans(l) : s.open <= k /\ k <= s.close

InsideClosedSpan(l, k) ==
    \E s \in QuoteSpans(l) : s.closed /\ s.open < k /\ k < s.close

Hashes(l) == {k \in 1..Len(l) : l[k] = HASH}

UnquotedHashes(l) == {k \in Hashes(l) : ~InsideSpan(l, k)}

UnquotedUnescapedHashes(l) == {k \in UnquotedHashes(l) : ~(k > 1 /\ l[k - 1] = BSLASH)}

\* The position at which the returned pair splits the line.
SplitPos == Len(code) + 1

\* C1: for every line, the returned code and comment concatenate to the line.
C1_ConcatIsLine == ScanDone => code \o comment = line

C1_Witness == ScanDone /\ code # <<>> /\ comment # <<>> /\ code \o comment = line

\* C2: the scanner never splits at a '#' inside a quoted span, open or
\* closed; and when a '#' of the code lies inside a balanced quoted span the
\* split is at the next '#' outside quotes, or there is no split at all.
C2_NoSplitInsideQuotes ==
    ScanDone =>
        /\ comment # <<>> => (line[SplitPos] = HASH /\ ~InsideSpan(line, SplitPos))
        /\ \A k \in Hashes(line) :
              (InsideClosedSpan(line, k) /\ \A h \in UnquotedHashes(line) : h > k) =>
                  LET later == {h \in UnquotedHashes(line) : h > k}
                  IN  IF later = {}
                      THEN code = line /\ comment = <<>>
                      ELSE SplitPos = Min(later) /\ comment = From(line, Min(later))

C2_Witness ==
    /\ ScanDone
    /\ comment # <<>>
    /\ \E k \in Hashes(line) : InsideClosedSpan(line, k) /\ k < SplitPos

\* C3 as stated: the comment starts at the first '#' that is unquoted and
\* not immediately preceded by a backslash; without one, nothing is split.
C3_Original ==
    ScanDone =>
        IF UnquotedUnescapedHashes(line) = {}
        THEN code = line /\ comment = <<>>
        ELSE comment = <<>> \/ SplitPos = Min(UnquotedUnescapedHashes(line))

\* C3 (amended): the comment is empty or starts at the first unquoted '#',
\* whether or not a backslash precedes it, and runs to the end of the line;
\* a line without an unquoted '#' is returned whole as code.
C3_SplitAtFirstUnquotedHash ==
    ScanDone =>
        IF UnquotedHashes(line) = {}
        THEN code = line /\ comment = <<>>
        ELSE /\ code = Before(line, Min(UnquotedHashes(line)))
             /\ comment = From(line, Min(UnquotedHashes(line)))

C3_Witness ==
    /\ ScanDone
    /\ comment # <<>>
    /\ SplitPos > 1
    /\ line[SplitPos - 1] = BSLASH
    /\ \E k \in Hashes(line) : k < SplitPos

\* C4: the two quote states are never both set; a step changes a quote
\* state only at a quote character of that kind while the other kind is not
\* open; and scenario 3's line splits at its '#' outside the double quotes.
C4_QuoteStatesExclusive ==
    /\ [](~(in_single /\ in_double))
    /\ [](ScanDone /\ line = Scenario3Line =>
            scan_ret = <<Before(Scenario3Line, 19), From(Scenario3Line, 19)>>)
    /\ [][/\ in_single' # in_single => (line[i] = SQ /\ ~in_double /\ ~in_double')
          /\ in_double' # in_double => (line[i] = DQ /\ ~in_single /\ ~in_single')]_vars

C4_Witness ==
    /\ line = Scenario3Line
    /\ i = 10
    /\ line[9] = SQ
    /\ in_double
    /\ ~in_single

\* ------------------------------------------------------------------------
\* shared.iter_yaml_files

\* str.lower(), on the letters that occur in the file names below.
lower_char(c) ==
    CASE c = "A" -> "a"
      [] c = "L" -> "l"
      [] c = "M" -> "m"
      [] c = "Y" -> "y"
      [] OTHER -> c

lower(s) == [k \in 1..Len(s) |-> lower_char(s[k])]

\* Faulty variant: the suffix is compared as it is spelled.
path_suffix_lower_as_is(name) ==
    LET dots == {k \in 1..Len(name) : name[k] = "."}
    IN  IF dots # {} /\ 1 < Max(dots) /\ Max(dots) < Len(name)
        THEN From(name, Max(dots))
        ELSE <<>>

\* `path.suffix.lower()`: pathlib's suffix is the name from its last dot on,
\* unless that dot is the first or the last character of the name.
path_suffix_lower(name) ==
    LET dots == {k \in 1..Len(name) : name[k] = "."}
    IN  IF dots # {} /\ 1 < Max(dots) /\ Max(dots) < Len(name)
        THEN lower(From(name, Max(dots)))
        ELSE <<>>

\* `exts = {'.yml', '.yaml'}`
exts == {<<".", "y", "m", "l">>, <<".", "y", "a", "m", "l">>}

\* A snapshot of a file system: the tree of scenario 4 (t/a.yml, t/b.YAML,
\* t/c.txt, t/d/e.yaml), a directory with a YAML name holding a hidden file
\* and a mixed-case one, and a path that does not exist.  parent 0: no parent
\* in the snapshot.
FileSystem ==
    <<[name |-> <<"t">>, kind |-> "dir", parent |-> 0],
      [name |-> <<"a", ".", "y", "m", "l">>, kind |-> "file", parent |-> 1],
      [name |-> <<"b", ".", "Y", "A", "M", "L">>, kind |-> "file", parent |-> 1],
      [name |-> <<"c", ".", "t", "x", "t">>, kind |-> "file", parent |-> 1],
      [name |-> <<"d">>, kind |-> "dir", parent |-> 1],
      [name |-> <<"e", ".", "y", "a", "m", "l">>, kind |-> "file", parent |-> 5],
      [name |-> <<"x", ".", "y", "m", "l">>, kind |-> "dir", parent |-> 0],
      [name |-> <<".", "y", "m", "l">>, kind |-> "file", parent |-> 7],
      [name |-> <<"f", ".", "Y", "m", "l">>, kind |-> "file", parent |-> 7],
      [name |-> <<"m", ".", "y", "m", "l">>, kind |-> "missing", parent |-> 0]>>

PathIds == 1..Len(FileSystem)

is_file(n) == FileSystem[n].kind = "file"

is_dir(n) == FileSystem[n].kind = "dir"

\* `path.is_file() and path.suffix.lower() in exts`
is_yaml_file(n) == is_file(n) /\ path_suffix_lower(FileSystem[n].name) \in exts

children(n) == {c \in PathIds : FileSystem[c].parent = n /\ FileSystem[c].kind # "missing"}

\* `path.rglob('*')`: every entry of the directory and, recursively, of its
\* subdirectories.
RECURSIVE rglob_all(_)
rglob_all(n) ==
    children(n) \cup UNION {rglob_all(c) : c \in {d \in children(n) : is_dir(d)}}

InitWalk ==
    /\ paths \in SeqsUpTo(PathIds, MaxPaths)
    /\ p_idx = 1
    /\ in_rglob = FALSE
    /\ rglob = {}
    /\ yielded = <<>>
    /\ walk_done = FALSE
    /\ ScanIdle
    /\ DocIdle
    /\ NlIdle
    /\ MainIdle
    /\ CallIdle

AtPath == ~walk_done /\ ~in_rglob /\ p_idx <= Len(paths)

\* `if path.is_file() and path.suffix.lower() in exts: yield path`
WalkYieldFile ==
    /\ AtPath
    /\ is_yaml_file(paths[p_idx])
    /\ yielded' = Append(yielded, paths[p_idx])
    /\ p_idx' = p_idx + 1
    /\ UNCHANGED <<paths, in_rglob, rglob, walk_done, scanvars, docvars, nlvars, mainvars, callvars>>

\* `elif path.is_dir(): for sub in path.rglob('*')`: the traversal starts.
WalkEnterDir ==
    /\ AtPath
    /\ ~is_yaml_file(paths[p_idx])
    /\ is_dir(paths[p_idx])
    /\ in_rglob' = TRUE
    /\ rglob' = rglob_all(paths[p_idx])
    /\ UNCHANGED <<paths, p_idx, yielded, walk_done, scanvars, docvars, nlvars, mainvars, callvars>>

\* The traversal produces a YAML file, which is yielded.  The order in which
\* a directory's entries come is the operating system's: any order.
WalkRglobYield ==
    /\ ~walk_done /\ in_rglob
    /\ \E sub \in rglob :
          /\ is_yaml_file(sub)
          /\ yielded' = Append(yielded, sub)
          /\ rglob' = rglob \ {sub}
    /\ UNCHANGED <<paths, p_idx, in_rglob, walk_done, scanvars, docvars, nlvars, mainvars, callvars>>

\* The traversal produces an entry that is not a YAML file: nothing is yielded.
WalkRglobSkip ==
    /\ ~walk_done /\ in_rglob
    /\ \E sub \in rglob :
          /\ ~is_yaml_file(sub)
          /\ rglob' = rglob \ {sub}
    /\ UNCHANGED <<paths, p_idx, in_rglob, yielded, walk_done, scanvars, docvars, nlvars, mainvars, callvars>>

\* The traversal is exhausted: on to the next input path.
WalkLeaveDir ==
    /\ ~walk_done /\ in_rglob /\ rglob = {}
    /\ in_rglob' = FALSE
    /\ p_idx' = p_idx + 1
    /\ UNCHANGED <<paths, rglob, yielded, walk_done, scanvars, docvars, nlvars, mainvars, callvars>>

\* Neither branch applies (a missing path, a file with another extension).
WalkSkipPath ==
    /\ AtPath
    /\ ~is_yaml_file(paths[p_idx])
    /\ ~is_dir(paths[p_idx])
    /\ p_idx' = p_idx + 1
    /\ UNCHANGED <<paths, in_rglob, rglob, yielded, walk_done, scanvars, docvars, nlvars, mainvars, callvars>>

\* `for p in paths` is exhausted: the generator ends.
WalkEnd ==
    /\ ~walk_done /\ ~in_rglob /\ p_idx > Len(paths)
    /\ walk_done' = TRUE
    /\ UNCHANGED <<paths, p_idx, in_rglob, rglob, yielded, scanvars, docvars, nlvars, mainvars, callvars>>

NextWalk ==
    \/ WalkYieldFile
    \/ WalkEnterDir
    \/ WalkRglobYield
    \/ WalkRglobSkip
    \/ WalkLeaveDir
    \/ WalkSkipPath
    \/ WalkEnd

SpecWalk == InitWalk /\ [][NextWalk]_vars

\* "Extension .yml or .yaml, compared case-insensitively", stated on the
\* name's ending rather than computed as pathlib computes a suffix.
SameLetter(c, d) ==
    \/ c = d
    \/ <<c, d>> \in {<<"Y", "y">>, <<"A", "a">>, <<"M", "m">>, <<"L", "l">>}

EndsWithExtension(name, e) ==
    /\ Len(name) > Len(e)
    /\ \A k \in 1..Len(e) : SameLetter(name[Len(name) - Len(e) + k], e[k])

HasYamlExtension(n) == \E e \in exts : EndsWithExtension(FileSystem[n].name, e)

RECURSIVE Beneath(_, _)
Beneath(n, d) ==
    /\ FileSystem[n].parent # 0
    /\ (FileSystem[n].parent = d \/ Beneath(FileSystem[n].parent, d))

InputPaths == {paths[k] : k \in 1..Len(paths)}

ExpectedYield ==
    {n \in InputPaths : is_file(n) /\ HasYamlExtension(n)}
    \cup {n \in PathIds : /\ is_file(n) /\ HasYamlExtension(n)
                          /\ \E d \in InputPaths : is_dir(d) /\ Beneath(n, d)}

Yielded == {yielded[k] : k \in 1..Len(yielded)}

\* C5: iter_yaml_files yields exactly the input paths that are regular files
\* with a .yml/.yaml extension (any letter case) and the regular files with
\* such an extension anywhere beneath the input directories; a missing input
\* or a file with another extension contributes nothing.
C5_YieldsExactlyYamlFiles ==
    /\ Yielded \subseteq ExpectedYield
    /\ walk_done => Yielded = ExpectedYield

C5_Witness ==
    /\ walk_done
    /\ paths = <<10, 1>>
    /\ Yielded = {2, 3, 6}

\* ------------------------------------------------------------------------
\* shared.first_non_empty_index, shared.ensure_document_start

\* The characters str.strip() removes, among those of the model.
is_space(c) == c \in {SP, TAB, NL, CR, "\f"}

RECURSIVE lstrip(_)
lstrip(s) == IF s # <<>> /\ is_space(Head(s)) THEN lstrip(Tail(s)) ELSE s

RECURSIVE rstrip(_)
rstrip(s) ==
    IF s # <<>> /\ is_space(s[Len(s)]) THEN rstrip(SubSeq(s, 1, Len(s) - 1)) ELSE s

strip(s) == rstrip(lstrip(s))

\* '---'
Marker == <<"-", "-", "-">>

\* Faulty variant: the test of the loop is inverted (the first empty line is found).
first_non_empty_index_inverted(lines) ==
    LET found == {k \in 1..Len(lines) : strip(lines[k]) = <<>>}
    IN  IF found = {} THEN 0 ELSE Min(found)

\* The position of the first line with `ln.strip()` non-empty; 0 for None.
first_non_empty_index(lines) ==
    LET found == {k \in 1..Len(lines) : strip(lines[k]) # <<>>}
    IN  IF found = {} THEN 0 ELSE Min(found)

\* `lines[idx].strip() == '---'`
is_document_start(ln) == strip(ln) = Marker

\* Faulty variant: a blank line follows the marker whatever the input began with.
prepend_document_start_blank(lines, idx) ==
    <<Marker>> \o << <<>> >> \o lines

\* `out = ['---']; if idx > 0: out.append(''); out.extend(lines)`
\* (idx > 0 there is idx > 1 here).
prepend_document_start(lines, idx) ==
    <<Marker>> \o (IF idx > 1 THEN << <<>> >> ELSE <<>>) \o lines

\* The pair (lines, changed flag) the function returns.
ensure_document_start(lines) ==
    IF lines = <<>> THEN << <<Marker>>, TRUE >>
    ELSE LET idx == first_non_empty_index(lines)
         IN  IF idx = 0 THEN << <<Marker>>, TRUE >>
             ELSE IF is_document_start(lines[idx]) THEN <<lines, FALSE>>
             ELSE <<prepend_document_start(lines, idx), TRUE>>

\* Lines as a file may hold them: empty, blank, the marker bare, indented
\* and followed by white space, content, and a near-marker.
DocLineChoices ==
    { <<>>, <<SP>>, Marker, <<SP>> \o Marker, Marker \o <<TAB>>, <<"a">>, <<"-", "-">> }

InitDoc ==
    /\ doc_lines \in SeqsUpTo(DocLineChoices, MaxDocLines)
    /\ doc_runs = <<>>
    /\ ScanIdle
    /\ WalkIdle
    /\ NlIdle
    /\ MainIdle
    /\ CallIdle

\* A call of ensure_document_start: on the input first, then on its own result.
EnsureDocumentStart ==
    /\ Len(doc_runs) < MaxApply
    /\ LET arg == IF doc_runs = <<>> THEN doc_lines ELSE doc_runs[Len(doc_runs)].out
           ret == ensure_document_start(arg)
       IN  doc_runs' = Append(doc_runs, [arg |-> arg, out |-> ret[1], changed |-> ret[2]])
    /\ UNCHANGED <<doc_lines, scanvars, walkvars, nlvars, mainvars, callvars>>

NextDoc == EnsureDocumentStart

SpecDoc == InitDoc /\ [][NextDoc]_vars

\* A line is blank when it holds white space only.
IsBlank(ln) == \A k \in 1..Len(ln) : is_space(ln[k])

NonBlank(lines) == {k \in 1..Len(lines) : ~IsBlank(lines[k])}

FirstNonBlankIsMarker(lines) ==
    NonBlank(lines) # {} /\ lines[Min(NonBlank(lines))] = Marker

\* C6: the first non-blank line of every list ensure_document_start returns
\* is exactly '---', with no surrounding white space.
C6_FirstNonBlankIsMarker ==
    \A k \in 1..Len(doc_runs) : FirstNonBlankIsMarker(doc_runs[k].out)

\* C7: ensure_document_start applied to its own output returns it unchanged
\* with changed flag False, and so does it for any input whose first
\* non-blank line is already the marker.
C7_DocumentStartIdempotent ==
    \A k \in 1..Len(doc_runs) :
        (k > 1 \/ FirstNonBlankIsMarker(doc_runs[k].arg)) =>
            (doc_runs[k].out = doc_runs[k].arg /\ ~doc_runs[k].changed)

C7_Witness ==
    /\ Len(doc_runs) = 2
    /\ doc_runs[1].changed
    /\ doc_runs[1].out # doc_runs[1].arg
    /\ doc_lines # <<>>
    /\ IsBlank(doc_lines[1])
    /\ doc_runs[2].out = doc_runs[1].out
    /\ ~doc_runs[2].changed

\* ------------------------------------------------------------------------
\* shared.ensure_final_newline

\* `text.endswith('\n')`
endswith_newline(text) == text # <<>> /\ text[Len(text)] = NL

RECURSIVE rstrip_newlines(_)
rstrip_newlines(s) ==
    IF s # <<>> /\ s[Len(s)] = NL THEN rstrip_newlines(SubSeq(s, 1, Len(s) - 1)) ELSE s

\* Faulty variant: the text is made to end with a single newline.
ensure_final_newline_single(text) ==
    <<rstrip_newlines(text) \o <<NL>>, rstrip_newlines(text) \o <<NL>> # text>>

\* The pair (text, changed flag) the function returns.
ensure_final_newline(text) ==
    IF ~endswith_newline(text) THEN <<text \o <<NL>>, TRUE>> ELSE <<text, FALSE>>

InitNl ==
    /\ nl_text \in SeqsUpTo({"a", SP, NL}, MaxTextLen)
    /\ nl_runs = <<>>
    /\ ScanIdle
    /\ WalkIdle
    /\ DocIdle
    /\ MainIdle
    /\ CallIdle

\* A call of ensure_final_newline: on the input first, then on its own result.
EnsureFinalNewline ==
    /\ Len(nl_runs) < MaxApply
    /\ LET arg == IF nl_runs = <<>> THEN nl_text ELSE nl_runs[Len(nl_runs)].out
           ret == ensure_final_newline(arg)
       IN  nl_runs' = Append(nl_runs, [arg |-> arg, out |-> ret[1], changed |-> ret[2]])
    /\ UNCHANGED <<nl_text, scanvars, walkvars, docvars, mainvars, callvars>>

NextNl == EnsureFinalNewline

SpecNl == InitNl /\ [][NextNl]_vars

RECURSIVE TrailingNewlines(_)
TrailingNewlines(s) ==
    IF s = <<>> \/ s[Len(s)] # NL THEN 0
    ELSE 1 + TrailingNewlines(SubSeq(s, 1, Len(s) - 1))

occurs_at(s, k, sub) ==
    k >= 1 /\ k + Len(sub) - 1 <= Len(s) /\ SubSeq(s, k, k + Len(sub) - 1) = sub

\* `sub in s`
contains(s, sub) == \E k \in 1..(Len(s) + 1) : occurs_at(s, k, sub)

\* str.replace(old, new): every occurrence, left to right, not overlapping.
RECURSIVE replace_all(_, _, _)
replace_all(s, old, new) ==
    IF Len(s) < Len(old) THEN s
    ELSE IF occurs_at(s, 1, old) THEN new \o replace_all(From(s, Len(old) + 1), old, new)
    ELSE <<Head(s)>> \o replace_all(Tail(s), old, new)

\* str.replace(old, new, 1): the first occurrence only.
replace_first(s, old, new) ==
    LET at == {k \in 1..Len(s) : occurs_at(s, k, old)}
    IN  IF at = {} THEN s
        ELSE Before(s, Min(at)) \o new \o From(s, Min(at) + Len(old))

\* The length of the run of `\s` characters of s that starts at position k.
RECURSIVE ws_run(_, _)
ws_run(s, k) == IF k <= Len(s) /\ is_space(s[k]) THEN 1 + ws_run(s, k + 1) ELSE 0

\* `len(code) - len(code.lstrip(' '))`
RECURSIVE leading_spaces(_)
leading_spaces(s) == IF s # <<>> /\ Head(s) = SP THEN 1 + leading_spaces(Tail(s)) ELSE 0

\* The elements of s at the positions in S, in their order.
Select(s, S) ==
    [j \in 1..Cardinality(S) |->
        s[CHOOSE k \in S : Cardinality({m \in S : m <= k}) = j]]

\* str.splitlines(keepends=False): a line ends at \n, \r, \r\n or \f (the
\* boundaries among the characters of the model); a text that ends with a
\* boundary has no empty last line.
splitlines(s) ==
    LET ends == {k \in 1..Len(s) :
                    \/ s[k] \in {NL, "\f"}
                    \/ s[k] = CR /\ ~(k < Len(s) /\ s[k + 1] = NL)}
        n == Cardinality(ends)
        nth(j) == CHOOSE k \in ends : Cardinality({m \in ends : m <= k}) = j
        first(e) == IF s[e] = NL /\ e > 1 /\ s[e - 1] = CR THEN e - 1 ELSE e
        last_end == IF n = 0 THEN 0 ELSE nth(n)
    IN  [j \in 1..n |->
            SubSeq(s, IF j = 1 THEN 1 ELSE nth(j - 1) + 1, first(nth(j)) - 1)]
        \o (IF last_end < Len(s) THEN <<SubSeq(s, last_end + 1, Len(s))>> ELSE <<>>)

\* sep.join(lines)
RECURSIVE join(_, _)
join(sep, lines) ==
    IF lines = <<>> THEN <<>>
    ELSE IF Len(lines) = 1 THEN lines[1]
    ELSE lines[1] \o sep \o join(sep, Tail(lines))

\* path.read_text(encoding='utf-8'): text mode with universal newlines, so
\* \r\n and \r are read as \n.
read_text(bytes) ==
    LET kept == {k \in 1..Len(bytes) :
                    ~(bytes[k] = CR /\ k < Len(bytes) /\ bytes[k + 1] = NL)}
    IN  Select([k \in 1..Len(bytes) |-> IF bytes[k] = CR THEN NL ELSE bytes[k]], kept)

\* What fix_file did to a file: `content` is None when it wrote nothing.
\* path.write_text writes \n as os.linesep, which is \n on POSIX.
FileResult(bytes, original, wrote, content, ret) ==
    [bytes |-> bytes, original |-> original, wrote |-> wrote,
     written |-> IF wrote THEN content ELSE <<>>,
     disk |-> IF wrote THEN content ELSE bytes, ret |-> ret]

\* ------------------------------------------------------------------------
\* fix_docstart_newline.fix_file

docstart_fix_file(bytes) ==
    LET original == read_text(bytes)
        lines == splitlines(original)
        doc == ensure_document_start(lines)
        nl == ensure_final_newline(join(<<NL>>, doc[1]))
        content == nl[1]
        changed_doc == doc[2]
        changed_nl == nl[2]
    IN  IF changed_doc \/ changed_nl
        THEN FileResult(bytes, original, TRUE, content, TRUE)
        ELSE FileResult(bytes, original, FALSE, content, FALSE)

\* ------------------------------------------------------------------------
\* shared.FQCN_MAPPINGS and fix_fqcn

Builtin ==
    <<"a", "n", "s", "i", "b", "l", "e", ".", "b", "u", "i", "l", "t", "i", "n", ".">>

General ==
    <<"c", "o", "m", "m", "u", "n", "i", "t", "y", ".", "g", "e", "n", "e", "r", "a", "l", ".">>

\* The table in its order (the loops over it take the first entry that matches).
FQCN_MAPPINGS ==
    <<
      [short |-> <<"c", "o", "p", "y">>, fqcn |-> Builtin \o <<"c", "o", "p", "y">>],
      [short |-> <<"f", "i", "l", "e">>, fqcn |-> Builtin \o <<"f", "i", "l", "e">>],
      [short |-> <<"t", "e", "m", "p", "l", "a", "t", "e">>, fqcn |-> Builtin \o <<"t", "e", "m", "p", "l", "a", "t", "e">>],
      [short |-> <<"s", "e", "r", "v", "i", "c", "e">>, fqcn |-> Builtin \o <<"s", "e", "r", "v", "i", "c", "e">>],
      [short |-> <<"s", "y", "s", "t", "e", "m", "d">>, fqcn |-> Builtin \o <<"s", "y", "s", "t", "e", "m", "d">>],
      [short |-> <<"u", "s", "e", "r">>, fqcn |-> Builtin \o <<"u", "s", "e", "r">>],
      [short |-> <<"g", "r", "o", "u", "p">>, fqcn |-> Builtin \o <<"g", "r", "o", "u", "p">>],
      [short |-> <<"p", "a", "c", "k", "a", "g", "e">>, fqcn |-> Builtin \o <<"p", "a", "c", "k", "a", "g", "e">>],
      [short |-> <<"y", "u", "m">>, fqcn |-> Builtin \o <<"y", "u", "m">>],
      [short |-> <<"a", "p", "t">>, fqcn |-> Builtin \o <<"a", "p", "t">>],
      [short |-> <<"p", "i", "p">>, fqcn |-> Builtin \o <<"p", "i", "p">>],
      [short |-> <<"g", "i", "t">>, fqcn |-> Builtin \o <<"g", "i", "t">>],
      [short |-> <<"u", "r", "i">>, fqcn |-> Builtin \o <<"u", "r", "i">>],
      [short |-> <<"g", "e", "t", "_", "u", "r", "l">>, fqcn |-> Builtin \o <<"g", "e", "t", "_", "u", "r", "l">>],
      [short |-> <<"u", "n", "a", "r", "c", "h", "i", "v", "e">>, fqcn |-> Builtin \o <<"u", "n", "a", "r", "c", "h", "i", "v", "e">>],
      [short |-> <<"l", "i", "n", "e", "i", "n", "f", "i", "l", "e">>, fqcn |-> Builtin \o <<"l", "i", "n", "e", "i", "n", "f", "i", "l", "e">>],
      [short |-> <<"b", "l", "o", "c", "k", "i", "n", "f", "i", "l", "e">>, fqcn |-> Builtin \o <<"b", "l", "o", "c", "k", "i", "n", "f", "i", "l", "e">>],
      [short |-> <<"r", "e", "p", "l", "a", "c", "e">>, fqcn |-> Builtin \o <<"r", "e", "p", "l", "a", "c", "e">>],
      [short |-> <<"f", "i", "n", "d">>, fqcn |-> Builtin \o <<"f", "i", "n", "d">>],
      [short |-> <<"s", "t", "a", "t">>, fqcn |-> Builtin \o <<"s", "t", "a", "t">>],
      [short |-> <<"d", "e", "b", "u", "g">>, fqcn |-> Builtin \o <<"d", "e", "b", "u", "g">>],
      [short |-> <<"f", "a", "i", "l">>, fqcn |-> Builtin \o <<"f", "a", "i", "l">>],
      [short |-> <<"a", "s", "s", "e", "r", "t">>, fqcn |-> Builtin \o <<"a", "s", "s", "e", "r", "t">>],
      [short |-> <<"s", "e", "t", "_", "f", "a", "c", "t">>, fqcn |-> Builtin \o <<"s", "e", "t", "_", "f", "a", "c", "t">>],
      [short |-> <<"i", "n", "c", "l", "u", "d", "e", "_", "v", "a", "r", "s">>, fqcn |-> Builtin \o <<"i", "n", "c", "l", "u", "d", "e", "_", "v", "a", "r", "s">>],
      [short |-> <<"c", "o", "m", "m", "a", "n", "d">>, fqcn |-> Builtin \o <<"c", "o", "m", "m", "a", "n", "d">>],
      [short |-> <<"s", "h", "e", "l", "l">>, fqcn |-> Builtin \o <<"s", "h", "e", "l", "l">>],
      [short |-> <<"r", "a", "w">>, fqcn |-> Builtin \o <<"r", "a", "w">>],
      [short |-> <<"s", "c", "r", "i", "p", "t">>, fqcn |-> Builtin \o <<"s", "c", "r", "i", "p", "t">>],
      [short |-> <<"c", "r", "o", "n">>, fqcn |-> Builtin \o <<"c", "r", "o", "n">>],
      [short |-> <<"m", "o", "u", "n", "t">>, fqcn |-> Builtin \o <<"m", "o", "u", "n", "t">>],
      [short |-> <<"s", "y", "s", "c", "t", "l">>, fqcn |-> Builtin \o <<"s", "y", "s", "c", "t", "l">>],
      [short |-> <<"s", "e", "t", "u", "p">>, fqcn |-> Builtin \o <<"s", "e", "t", "u", "p">>],
      [short |-> <<"p", "i", "n", "g">>, fqcn |-> Builtin \o <<"p", "i", "n", "g">>],
      [short |-> <<"w", "a", "i", "t", "_", "f", "o", "r">>, fqcn |-> Builtin \o <<"w", "a", "i", "t", "_", "f", "o", "r">>],
      [short |-> <<"p", "a", "u", "s", "e">>, fqcn |-> Builtin \o <<"p", "a", "u", "s", "e">>],
      [short |-> <<"f", "e", "t", "c", "h">>, fqcn |-> Builtin \o <<"f", "e", "t", "c", "h">>],
      [short |-> <<"s", "y", "n", "c", "h", "r", "o", "n", "i", "z", "e">>, fqcn |-> Builtin \o <<"s", "y", "n", "c", "h", "r", "o", "n", "i", "z", "e">>],
      [short |-> <<"s", "l", "u", "r", "p">>, fqcn |-> Builtin \o <<"s", "l", "u", "r", "p">>],
      [short |-> <<"i", "n", "c", "l", "u", "d", "e">>, fqcn |-> Builtin \o <<"i", "n", "c", "l", "u", "d", "e">>],
      [short |-> <<"i", "n", "c", "l", "u", "d", "e", "_", "t", "a", "s", "k", "s">>, fqcn |-> Builtin \o <<"i", "n", "c", "l", "u", "d", "e", "_", "t", "a", "s", "k", "s">>],
      [short |-> <<"i", "m", "p", "o", "r", "t", "_", "t", "a", "s", "k", "s">>, fqcn |-> Builtin \o <<"i", "m", "p", "o", "r", "t", "_", "t", "a", "s", "k", "s">>],
      [short |-> <<"i", "n", "c", "l", "u", "d", "e", "_", "r", "o", "l", "e">>, fqcn |-> Builtin \o <<"i", "n", "c", "l", "u", "d", "e", "_", "r", "o", "l", "e">>],
      [short |-> <<"i", "m", "p", "o", "r", "t", "_", "r", "o", "l", "e">>, fqcn |-> Builtin \o <<"i", "m", "p", "o", "r", "t", "_", "r", "o", "l", "e">>],
      [short |-> <<"m", "e", "t", "a">>, fqcn |-> Builtin \o <<"m", "e", "t", "a">>],
      [short |-> <<"r", "e", "d", "f", "i", "s", "h", "_", "c", "o", "m", "m", "a", "n", "d">>, fqcn |-> General \o <<"r", "e", "d", "f", "i", "s", "h", "_", "c", "o", "m", "m", "a", "n", "d">>],
      [short |-> <<"i", "p", "m", "i", "_", "p", "o", "w", "e", "r">>, fqcn |-> General \o <<"i", "p", "m", "i", "_", "p", "o", "w", "e", "r">>],
      [short |-> <<"i", "p", "m", "i", "_", "b", "o", "o", "t">>, fqcn |-> General \o <<"i", "p", "m", "i", "_", "b", "o", "o", "t">>]
    >>

\* `task_key_indent: int | None = None`
NoIndent == -1

\* `re.match(r'^(\s*)-\s+.*', code)`: white space, a dash, white space.
m_dash(c) ==
    LET n == ws_run(c, 1)
    IN  n + 2 <= Len(c) /\ c[n + 1] = "-" /\ is_space(c[n + 2])

\* `len(m_dash.group(1))`
m_dash_indent(c) == ws_run(c, 1)

\* `re.search(rf'^(\s*-\s*){short}:(\s|$)', code)`: 0 when there is no match,
\* else the position of the last character matched.
m_mod_dash_end(c, short) ==
    LET n == ws_run(c, 1)
        st == n + 2 + ws_run(c, n + 2)
        e == st + Len(short) + 1
    IN  IF /\ n + 1 <= Len(c) /\ c[n + 1] = "-"
           /\ occurs_at(c, st, short \o <<":">>)
           /\ (e > Len(c) \/ is_space(c[e]))
        THEN (IF e > Len(c) THEN e - 1 ELSE e)
        ELSE 0

\* The loop of fix_file over the table: the code after the first replacement
\* in the dash form, and whether one was made.
replace_after_dash(c) ==
    LET hits == {j \in 1..Len(FQCN_MAPPINGS) :
                    /\ ~contains(c, FQCN_MAPPINGS[j].fqcn)
                    /\ m_mod_dash_end(c, FQCN_MAPPINGS[j].short) # 0}
    IN  IF hits = {} THEN [code |-> c, replaced |-> FALSE]
        ELSE LET m == FQCN_MAPPINGS[Min(hits)]
                 end == m_mod_dash_end(c, m.short)
                 matched == SubSeq(c, 1, end)
             IN  [code |-> replace_all(matched, m.short \o <<":">>, m.fqcn \o <<":">>)
                           \o From(c, end + 1),
                  replaced |-> TRUE]

\* `re.match(rf'^(\s){{{target_indent}}}{short}:(\s|$)', code)`
m_key_at_indent(c, target_indent, short) ==
    /\ ws_run(c, 1) >= target_indent
    /\ occurs_at(c, target_indent + 1, short \o <<":">>)
    /\ LET e == target_indent + Len(short) + 2
       IN  e > Len(c) \/ is_space(c[e])

\* Faulty variant: the key is replaced at whatever indent the line has.
replace_fqcn_in_line_any_indent(c, target_indent) ==
    LET n == leading_spaces(c)
        hits == {j \in 1..Len(FQCN_MAPPINGS) :
                    /\ ~contains(c, FQCN_MAPPINGS[j].fqcn)
                    /\ m_key_at_indent(c, n, FQCN_MAPPINGS[j].short)}
    IN  IF hits = {} THEN c
        ELSE LET m == FQCN_MAPPINGS[Min(hits)]
             IN  replace_first(c, m.short \o <<":">>, m.fqcn \o <<":">>)

replace_fqcn_in_line_at_indent(c, target_indent) ==
    IF leading_spaces(c) # target_indent THEN c
    ELSE LET hits == {j \in 1..Len(FQCN_MAPPINGS) :
                         /\ ~contains(c, FQCN_MAPPINGS[j].fqcn)
                         /\ m_key_at_indent(c, target_indent, FQCN_MAPPINGS[j].short)}
         IN  IF hits = {} THEN c
             ELSE LET m == FQCN_MAPPINGS[Min(hits)]
                  IN  replace_first(c, m.short \o <<":">>, m.fqcn \o <<":">>)

\* The body of `for line in lines`: the line appended to `fixed`.
fqcn_fixed_line(ln, task_key_indent) ==
    LET cc == split_code_and_comment(ln)
        stripped == strip(cc[1])
        dash == replace_after_dash(cc[1])
        new_code ==
            IF /\ ~dash.replaced
               /\ task_key_indent # NoIndent
               /\ stripped # <<>>
               /\ Head(stripped) # HASH
            THEN replace_fqcn_in_line_at_indent(dash.code, task_key_indent)
            ELSE dash.code
    IN  new_code \o cc[2]

\* The loop, from line k on, with task_key_indent as the lines before left it.
RECURSIVE fqcn_fixed_lines(_, _, _)
fqcn_fixed_lines(lines, k, task_key_indent) ==
    IF k > Len(lines) THEN <<>>
    ELSE LET c == split_code_and_comment(lines[k])[1]
             indent == IF m_dash(c) THEN m_dash_indent(c) + 2 ELSE task_key_indent
         IN  <<fqcn_fixed_line(lines[k], indent)>> \o fqcn_fixed_lines(lines, k + 1, indent)

\* fix_fqcn.fix_file
fqcn_fix_file(bytes) ==
    LET original == read_text(bytes)
        new_content == join(<<NL>>, fqcn_fixed_lines(splitlines(original), 1, NoIndent))
    IN  IF new_content # original
        THEN FileResult(bytes, original, TRUE,
                        IF endswith_newline(original) /\ ~endswith_newline(new_content)
                        THEN new_content \o <<NL>> ELSE new_content,
                        TRUE)
        ELSE FileResult(bytes, original, FALSE, new_content, FALSE)

\* ------------------------------------------------------------------------
\* fix_trailing_spaces

\* `ln.rstrip(chars)`
RECURSIVE rstrip_chars(_, _)
rstrip_chars(s, chars) ==
    IF s # <<>> /\ s[Len(s)] \in chars
    THEN rstrip_chars(SubSeq(s, 1, Len(s) - 1), chars)
    ELSE s

\* `ln.rstrip(' \t')`, the element of the list comprehension in fix_file.
trailing_fixed_line(ln) == rstrip_chars(ln, {SP, TAB})

\* fix_trailing_spaces.fix_file
trailing_fix_file(bytes) ==
    LET original == read_text(bytes)
        lines == splitlines(original)
        fixed_lines == [k \in 1..Len(lines) |-> trailing_fixed_line(lines[k])]
        joined == join(<<NL>>, fixed_lines)
        new_content ==
            IF endswith_newline(original) /\ ~endswith_newline(joined)
            THEN joined \o <<NL>> ELSE joined
    IN  IF new_content # original
        THEN FileResult(bytes, original, TRUE, new_content, TRUE)
        ELSE FileResult(bytes, original, FALSE, new_content, FALSE)

\* ------------------------------------------------------------------------
\* fix_colons

\* The position of the first ':' of c, 0 when it has none.
first_colon(c) ==
    LET at == {k \in 1..Len(c) : c[k] = ":"}
    IN  IF at = {} THEN 0 ELSE Min(at)

\* s as a whole matches `\s*(-\s*)?`: white space, or white space, a dash
\* and white space.
ws_dash_ws(s) ==
    LET n == ws_run(s, 1)
    IN  \/ n = Len(s)
        \/ s[n + 1] = "-" /\ n + 1 + ws_run(s, n + 2) = Len(s)

\* `re.match(r"^(\s*(-\s*)?[^:#\n][^:]*:)(\s{2,})(.*)$", code)` matches: no
\* part of the prefix group can hold a ':', so the group ends at the first
\* ':' of the code; before it there is a character other than '#' and '\n'
\* that follows an optional indentation and dash; two or more white-space
\* characters follow it.  (`.` does not match '\n'.)
m_mapping_colon(c) ==
    LET col == first_colon(c)
    IN  /\ col > 1
        /\ \E p \in 1..(col - 1) :
              c[p] \notin {"#", NL} /\ ws_dash_ws(Before(c, p))
        /\ ws_run(c, col + 1) >= 2
        /\ \A k \in (col + 1 + ws_run(c, col + 1))..Len(c) : c[k] # NL

\* f"{prefix} {rest}"
compress_after_first_mapping_colon(c) ==
    IF ~m_mapping_colon(c) THEN c
    ELSE LET col == first_colon(c)
         IN  Before(c, col + 1) \o <<SP>> \o From(c, col + 1 + ws_run(c, col + 1))

\* The `while i < len(inner)` loop of repl from position i on: the
\* characters it appends to out.
RECURSIVE inline_map_walk(_, _, _, _)
inline_map_walk(inner, k, ins, ind) ==
    IF k > Len(inner) THEN <<>>
    ELSE IF inner[k] = SQ /\ ~ind
         THEN <<SQ>> \o inline_map_walk(inner, k + 1, ~ins, ind)
    ELSE IF inner[k] = DQ /\ ~ins
         THEN <<DQ>> \o inline_map_walk(inner, k + 1, ins, ~ind)
    ELSE IF inner[k] = ":" /\ ~ins /\ ~ind
         THEN LET nxt == k + 1 + leading_spaces(From(inner, k + 1))
              IN  <<":">>
                  \o (IF nxt <= Len(inner) /\ inner[nxt] \notin {"}", ","}
                      THEN <<SP>> ELSE <<>>)
                  \o inline_map_walk(inner, nxt, ins, ind)
    ELSE <<inner[k]>> \o inline_map_walk(inner, k + 1, ins, ind)

\* `return '{' + ''.join(out).strip() + '}'`
repl(inner) == <<"{">> \o strip(inline_map_walk(inner, 1, FALSE, FALSE)) \o <<"}">>

\* Where the match of `\{([^{}\n]*)\}` that starts at position k ends, 0
\* when none starts there.
inline_map_end(c, k) ==
    LET stops == {e \in (k + 1)..Len(c) : c[e] \in {"{", "}", NL}}
    IN  IF c[k] = "{" /\ stops # {} /\ c[Min(stops)] = "}" THEN Min(stops) ELSE 0

\* re.sub over the code from position k on: matches are taken left to right
\* and do not overlap.
RECURSIVE inline_map_sub(_, _)
inline_map_sub(c, k) ==
    IF k > Len(c) THEN <<>>
    ELSE LET e == inline_map_end(c, k)
         IN  IF e # 0
             THEN repl(SubSeq(c, k + 1, e - 1)) \o inline_map_sub(c, e + 1)
             ELSE <<c[k]>> \o inline_map_sub(c, k + 1)

normalize_inline_map_colons(c) == inline_map_sub(c, 1)

\* fix_colons.fix_line
colons_fix_line(ln) ==
    LET cc == split_code_and_comment(ln)
    IN  IF strip(cc[1]) = <<>> \/ Head(lstrip(cc[1])) = HASH
        THEN ln
        ELSE normalize_inline_map_colons(compress_after_first_mapping_colon(cc[1]))
             \o cc[2]

\* fix_colons.fix_file
colons_fix_file(bytes) ==
    LET original == read_text(bytes)
        lines == splitlines(original)
        fixed_lines == [k \in 1..Len(lines) |-> colons_fix_line(lines[k])]
        new_content == ensure_final_newline(join(<<NL>>, fixed_lines))[1]
    IN  IF new_content # original
        THEN FileResult(bytes, original, TRUE, new_content, TRUE)
        ELSE FileResult(bytes, original, FALSE, new_content, FALSE)

\* ------------------------------------------------------------------------
\* fix_truthy

\* TRUTH_VALUES, in the order the dict is iterated.
TRUTH_VALUES ==
    << [old |-> <<"y", "e", "s">>, new |-> <<"t", "r", "u", "e">>],
       [old |-> <<"Y", "e", "s">>, new |-> <<"t", "r", "u", "e">>],
       [old |-> <<"Y", "E", "S">>, new |-> <<"t", "r", "u", "e">>],
       [old |-> <<"n", "o">>, new |-> <<"f", "a", "l", "s", "e">>],
       [old |-> <<"N", "o">>, new |-> <<"f", "a", "l", "s", "e">>],
       [old |-> <<"N", "O">>, new |-> <<"f", "a", "l", "s", "e">>],
       [old |-> <<"o", "n">>, new |-> <<"t", "r", "u", "e">>],
       [old |-> <<"O", "n">>, new |-> <<"t", "r", "u", "e">>],
       [old |-> <<"O", "N">>, new |-> <<"t", "r", "u", "e">>],
       [old |-> <<"o", "f", "f">>, new |-> <<"f", "a", "l", "s", "e">>],
       [old |-> <<"O", "f", "f">>, new |-> <<"f", "a", "l", "s", "e">>],
       [old |-> <<"O", "F", "F">>, new |-> <<"f", "a", "l", "s", "e">>] >>

\* The loop that identifies quoted spans, from position k on: the pairs
\* (start, end) it appends to quote_spans.
RECURSIVE quote_spans_from(_, _, _, _, _)
quote_spans_from(c, k, in_quotes, quote_char, start) ==
    IF k > Len(c) THEN {}
    ELSE IF c[k] \notin {DQ, SQ} \/ (k > 1 /\ c[k - 1] = BSLASH)
         THEN quote_spans_from(c, k + 1, in_quotes, quote_char, start)
    ELSE IF ~in_quotes
         THEN quote_spans_from(c, k + 1, TRUE, c[k], k)
    ELSE IF c[k] = quote_char
         THEN {<<start, k>>} \cup quote_spans_from(c, k + 1, FALSE, quote_char, start)
    ELSE quote_spans_from(c, k + 1, in_quotes, quote_char, start)

quote_spans(c) == quote_spans_from(c, 1, FALSE, "", 0)

inside_quotes(spans, idx) == \E sp \in spans : sp[1] <= idx /\ idx <= sp[2]

\* The match of rf'({sep}\s*){old}(?=(\s|$|[,}}\]]))' that starts at
\* position p: the position after its last character, 0 when there is none.
\* (`old` starts with a letter, so `\s*` takes the whole white-space run.)
truth_match_end(c, p, sep, old) ==
    LET st == p + 1 + ws_run(c, p + 1)
        e == st + Len(old)
    IN  IF /\ p <= Len(c)
           /\ c[p] = sep
           /\ occurs_at(c, st, old)
           /\ (e > Len(c) \/ is_space(c[e]) \/ c[e] \in {",", "}", "]"})
        THEN e ELSE 0

\* list(re.finditer(pattern, result)) from position p on: the matches in
\* order, each with its span (s, e) and its group 1.
RECURSIVE truth_matches(_, _, _, _)
truth_matches(c, p, sep, old) ==
    IF p > Len(c) THEN <<>>
    ELSE LET e == truth_match_end(c, p, sep, old)
         IN  IF e # 0
             THEN <<[s |-> p, e |-> e, grp1 |-> SubSeq(c, p, e - Len(old) - 1)]>>
                  \o truth_matches(c, e, sep, old)
             ELSE truth_matches(c, p + 1, sep, old)

\* `for m in list(re.finditer(pattern, result))` from the k-th match on:
\* the spans are those of the string the matches were found in, while the
\* pieces are cut from the result as the matches before have left it.
RECURSIVE replace_matches(_, _, _, _, _)
replace_matches(result, ms, k, spans, new) ==
    IF k > Len(ms) THEN result
    ELSE IF inside_quotes(spans, ms[k].s)
         THEN replace_matches(result, ms, k + 1, spans, new)
    ELSE replace_matches(
             SubSeq(result, 1, Min({ms[k].s - 1, Len(result)}))
                 \o ms[k].grp1 \o new \o From(result, ms[k].e),
             ms, k + 1, spans, new)

\* One pattern of one truth value applied to result.
replace_truth_value(result, sep, tv, spans) ==
    replace_matches(result, truth_matches(result, 1, sep, tv.old), 1, spans, tv.new)

\* `for old, new in TRUTH_VALUES.items()` from the j-th entry on.  (The
\* test of the length has TLC compute the result of an entry before it goes
\* on to the next.)
RECURSIVE replace_truth_values(_, _, _)
replace_truth_values(result, j, spans) ==
    IF j > Len(TRUTH_VALUES) THEN result
    ELSE LET after_colon == replace_truth_value(result, ":", TRUTH_VALUES[j], spans)
             after_equals == replace_truth_value(after_colon, "=", TRUTH_VALUES[j], spans)
         IN  IF Len(after_colon) >= 0 /\ Len(after_equals) >= 0
             THEN replace_truth_values(after_equals, j + 1, spans)
             ELSE result

fix_truth_values_in_line(ln) ==
    LET stripped == lstrip(ln)
    IN  IF stripped = <<>> \/ Head(stripped) = HASH THEN ln
        ELSE LET cc == split_code_and_comment(ln)
             IN  replace_truth_values(cc[1], 1, quote_spans(cc[1])) \o cc[2]

\* fix_truthy.fix_file
truthy_fix_file(bytes) ==
    LET original == read_text(bytes)
        lines == splitlines(original)
        fixed == [k \in 1..Len(lines) |-> fix_truth_values_in_line(lines[k])]
        new_content == join(<<NL>>, fixed)
    IN  IF new_content # original
        THEN FileResult(bytes, original, TRUE,
                        new_content \o (IF endswith_newline(original)
                                        THEN <<NL>> ELSE <<>>),
                        TRUE)
        ELSE FileResult(bytes, original, FALSE, new_content, FALSE)

\* ------------------------------------------------------------------------
\* fix_inside_brackets

\* The first position from `from` on at which sub occurs in c, 0 when none.
find_from(c, from, sub) ==
    LET at == {k \in from..Len(c) : occurs_at(c, k, sub)}
    IN  IF at = {} THEN 0 ELSE Min(at)

\* re.sub(r"\{\{\s*(.*?)\s*\}\}", lambda m: "{{ " + m.group(1).strip() + " }}",
\* code) from position k on, for a pair of delimiters op and cl: the lazy
\* group ends at the first cl after op, and strip() of group 1 is strip()
\* of all that is between the two.
RECURSIVE jinja_sub(_, _, _, _)
jinja_sub(c, k, op, cl) ==
    IF k > Len(c) THEN <<>>
    ELSE LET e == IF occurs_at(c, k, op) THEN find_from(c, k + 2, cl) ELSE 0
         IN  IF e # 0
             THEN op \o <<SP>> \o strip(SubSeq(c, k + 2, e - 1)) \o <<SP>> \o cl
                  \o jinja_sub(c, e + 2, op, cl)
             ELSE <<c[k]>> \o jinja_sub(c, k + 1, op, cl)

_normalize_jinja_spacing(c) ==
    jinja_sub(jinja_sub(c, 1, <<"{", "{">>, <<"}", "}">>), 1,
              <<"{", "%">>, <<"%", "}">>)

\* The loop of _split_outside_quotes from position k on: the list of parts.
RECURSIVE split_outside_quotes_from(_, _, _, _, _, _, _)
split_outside_quotes_from(text, sep, k, ins, ind, cur, parts) ==
    IF k > Len(text) THEN Append(parts, cur)
    ELSE IF text[k] = SQ /\ ~ind
         THEN split_outside_quotes_from(text, sep, k + 1, ~ins, ind,
                                        Append(cur, text[k]), parts)
    ELSE IF text[k] = DQ /\ ~ins
         THEN split_outside_quotes_from(text, sep, k + 1, ins, ~ind,
                                        Append(cur, text[k]), parts)
    ELSE IF text[k] = sep /\ ~ins /\ ~ind
         THEN split_outside_quotes_from(text, sep, k + 1, ins, ind,
                                        <<>>, Append(parts, cur))
    ELSE split_outside_quotes_from(text, sep, k + 1, ins, ind,
                                   Append(cur, text[k]), parts)

_split_outside_quotes(text, sep) ==
    split_outside_quotes_from(text, sep, 1, FALSE, FALSE, <<>>, <<>>)

_normalize_flow_list_inner(inner) ==
    IF strip(inner) = <<>> THEN <<>>
    ELSE LET parts == _split_outside_quotes(strip(inner), ",")
             items == [k \in 1..Len(parts) |-> strip(parts[k])]
         IN  join(<<",", SP>>, items)

\* `while j < len(code) and code[j] != quote` from position j on: where it
\* stops (at the closing quote, or past the end).
RECURSIVE skip_quoted(_, _, _)
skip_quoted(c, j, quote) ==
    IF j > Len(c) \/ c[j] = quote THEN j
    ELSE IF quote = DQ /\ c[j] = BSLASH THEN skip_quoted(c, j + 2, quote)
    ELSE skip_quoted(c, j + 1, quote)

\* `while j < len(code) and depth > 0` from position j on: the position
\* after the closing ']', or one past the end of the code.
RECURSIVE bracket_scan(_, _, _)
bracket_scan(c, j, depth) ==
    IF j > Len(c) \/ depth = 0 THEN j
    ELSE IF c[j] \in {DQ, SQ}
         THEN bracket_scan(c, skip_quoted(c, j + 1, c[j]) + 1, depth)
    ELSE IF c[j] = "[" THEN bracket_scan(c, j + 1, depth + 1)
    ELSE IF c[j] = "]" THEN bracket_scan(c, j + 1, depth - 1)
    ELSE bracket_scan(c, j + 1, depth)

\* What is appended to out for the segment code[i:j]:
\* `re.match(r"\[([^\n\]]*)\]", segment)` matches up to the first ']' of
\* the segment, and what follows that ']' in the segment is not appended.
normalized_segment(segment) ==
    LET stops == {q \in 2..Len(segment) : segment[q] \in {"]", NL}}
    IN  IF stops # {} /\ segment[Min(stops)] = "]"
        THEN <<"[">> \o _normalize_flow_list_inner(SubSeq(segment, 2, Min(stops) - 1))
             \o <<"]">>
        ELSE segment

\* The `while i < len(code)` loop of _normalize_flow_lists_outside_quotes
\* from position k on: the characters appended to out.
RECURSIVE flow_lists_from(_, _, _, _)
flow_lists_from(c, k, ins, ind) ==
    IF k > Len(c) THEN <<>>
    ELSE IF c[k] = SQ /\ ~ind
         THEN <<SQ>> \o flow_lists_from(c, k + 1, ~ins, ind)
    ELSE IF c[k] = DQ /\ ~ins
         THEN <<DQ>> \o flow_lists_from(c, k + 1, ins, ~ind)
    ELSE IF c[k] = "[" /\ ~ins /\ ~ind
         THEN LET j == bracket_scan(c, k + 1, 1)
              IN  normalized_segment(SubSeq(c, k, Min({j - 1, Len(c)})))
                  \o flow_lists_from(c, j, ins, ind)
    ELSE <<c[k]>> \o flow_lists_from(c, k + 1, ins, ind)

_normalize_flow_lists_outside_quotes(c) == flow_lists_from(c, 1, FALSE, FALSE)

\* fix_inside_brackets.fix_line
brackets_fix_line(ln) ==
    LET cc == split_code_and_comment(ln)
    IN  IF strip(cc[1]) = <<>> \/ Head(lstrip(cc[1])) = HASH
        THEN ln
        ELSE _normalize_flow_lists_outside_quotes(_normalize_jinja_spacing(cc[1]))
             \o cc[2]

\* fix_inside_brackets.fix_file
brackets_fix_file(bytes) ==
    LET original == read_text(bytes)
        lines == splitlines(original)
        fixed_lines == [k \in 1..Len(lines) |-> brackets_fix_line(lines[k])]
        joined == join(<<NL>>, fixed_lines)
        new_content ==
            IF endswith_newline(original) /\ ~endswith_newline(joined)
            THEN joined \o <<NL>> ELSE joined
    IN  IF new_content # original
        THEN FileResult(bytes, original, TRUE, new_content, TRUE)
        ELSE FileResult(bytes, original, FALSE, new_content, FALSE)

\* ------------------------------------------------------------------------
\* main of a fixer script, and the files it is run on

\* Lines of the files: '---', '', 'a: 1', '- copy: x', '  file: # c',
\* '- ansible.builtin.copy:', 'a: 1 ' (a trailing space), 'a:  1' (two
\* spaces after the colon), 'a: yes' and 'x: [ a ]'.
FixLineChoices ==
    { Marker,
      <<>>,
      <<"a", ":", " ", "1">>,
      <<"-", " ", "c", "o", "p", "y", ":", " ", "x">>,
      <<" ", " ", "f", "i", "l", "e", ":", " ", "#", " ", "c">>,
      <<"-", " ">> \o Builtin \o <<"c", "o", "p", "y", ":">>,
      <<"a", ":", " ", "1", " ">>,
      <<"a", ":", " ", " ", "1">>,
      <<"a", ":", " ", "y", "e", "s">>,
      <<"x", ":", " ", "[", " ", "a", " ", "]">> }

RECURSIVE repeat(_, _)
repeat(s, n) == IF n = 0 THEN <<>> ELSE s \o repeat(s, n - 1)

\* Files of up to MaxFileLines lines, with \n or \r\n line ends, whose last
\* line ends with a line end or does not (an empty last line makes a file
\* end with two).
FileChoices ==
    { join(eol, ls) \o repeat(eol, final) :
        ls \in SeqsUpTo(FixLineChoices, MaxFileLines),
        eol \in {<<NL>>, <<CR, NL>>},
        final \in 0..1 }

\* A byte that is not valid UTF-8, on which read_text raises
\* UnicodeDecodeError.
XFF == "\\xff"

\* A file on disk: its bytes, and whether it may be written (write_text
\* raises PermissionError on a file that may not).
File(bytes, writable) == [bytes |-> bytes, writable |-> writable]

\* The files of the runs over several files: 'a: 1\n', 'a: 1' (no final
\* newline), '- copy: x\n', a file that is not UTF-8, and 'a \n' read-only.
RunFiles ==
    { File(<<"a", ":", " ", "1", NL>>, TRUE),
      File(<<"a", ":", " ", "1">>, TRUE),
      File(<<"-", " ", "c", "o", "p", "y", ":", " ", "x", NL>>, TRUE),
      File(<<"a", XFF, NL>>, TRUE),
      File(<<"a", " ", NL>>, FALSE) }

Fixers ==
    {"fix_fqcn", "fix_docstart_newline", "fix_trailing_spaces", "fix_colons",
     "fix_truthy", "fix_inside_brackets"}

\* main before its loop.
MainStart ==
    /\ fixer \in Fixers
    /\ pc = "for"
    /\ checked = 0
    /\ changed = 0
    /\ file = NoFile
    /\ stdout = None
    /\ exit_code = NotExited
    /\ ScanIdle
    /\ WalkIdle
    /\ DocIdle
    /\ NlIdle
    /\ CallIdle

\* Runs that find no file or one file, of any content.
InitMain ==
    /\ MainStart
    /\ fs \in {<<>>} \cup {<<File(bytes, TRUE)>> : bytes \in FileChoices}
                     \cup {<<f>> : f \in RunFiles}

\* Runs that find up to MaxFiles files.
InitRun ==
    /\ MainStart
    /\ fs \in SeqsUpTo(RunFiles, MaxFiles)

\* `for file in iter_yaml_files(args.paths)` asks the generator for its next
\* file; what fix_file did to the file before is no longer at hand.
ForNext ==
    /\ pc = "for"
    /\ pc' = "next"
    /\ file' = NoFile
    /\ UNCHANGED <<fixer, checked, changed, stdout, exit_code, fs,
                   scanvars, walkvars, docvars, nlvars, callvars>>

\* The generator yields the next file.
YieldFile ==
    /\ pc = "next"
    /\ checked < Len(fs)
    /\ file' = FileResult(fs[checked + 1].bytes, <<>>, FALSE, <<>>, FALSE)
    /\ pc' = "body"
    /\ UNCHANGED <<fixer, checked, changed, stdout, exit_code, fs,
                   scanvars, walkvars, docvars, nlvars, callvars>>

\* path.read_text(encoding='utf-8') decodes the bytes.
decodes(bytes) == \A k \in 1..Len(bytes) : bytes[k] # XFF

\* fix_file raises on the file the loop is at: read_text cannot decode it,
\* or write_text may not write it.
raises(result) ==
    \/ ~decodes(file.bytes)
    \/ result.wrote /\ ~fs[checked + 1].writable

\* fix_file returned `result`: the counters, the line printed and the disk.
LoopReturn(result) ==
    /\ ~raises(result)
    /\ file' = result
    /\ changed' = IF result.ret THEN changed + 1 ELSE changed
    /\ stdout' = IF result.ret THEN "Fixed" ELSE "No change"
    /\ fs' = [fs EXCEPT ![checked + 1].bytes = result.disk]
    /\ pc' = "for"
    /\ UNCHANGED exit_code

\* Faulty variant: the failing file is reported and the loop goes on.
LoopExcept_continue(result) ==
    /\ raises(result)
    /\ stdout' = "Error"
    /\ exit_code' = 2
    /\ pc' = "for"
    /\ UNCHANGED <<changed, file, fs>>

\* Faulty variant: a failing file ends the run with the summary's code.
LoopExcept_zero(result) ==
    /\ raises(result)
    /\ stdout' = "Error"
    /\ exit_code' = 0
    /\ pc' = "exit"
    /\ UNCHANGED <<changed, file, fs>>

\* `except Exception as exc: print(f"Error: {file}: {exc}"); return 2`
LoopExcept(result) ==
    /\ raises(result)
    /\ stdout' = "Error"
    /\ exit_code' = 2
    /\ pc' = "exit"
    /\ UNCHANGED <<changed, file, fs>>

\* The loop body with a fix_file that would do `result` to the file.
LoopBody(result) ==
    /\ pc = "body"
    /\ checked' = checked + 1
    /\ (LoopReturn(result) \/ LoopExcept(result))
    /\ UNCHANGED <<fixer, scanvars, walkvars, docvars, nlvars, callvars>>

\* The loop body of fix_fqcn.main.
FqcnBody == fixer = "fix_fqcn" /\ LoopBody(fqcn_fix_file(file.bytes))

\* The loop body of fix_docstart_newline.main.
DocstartBody ==
    fixer = "fix_docstart_newline" /\ LoopBody(docstart_fix_file(file.bytes))

\* The loop body of fix_trailing_spaces.main.
TrailingBody ==
    fixer = "fix_trailing_spaces" /\ LoopBody(trailing_fix_file(file.bytes))

\* The loop body of fix_colons.main.
ColonsBody == fixer = "fix_colons" /\ LoopBody(colons_fix_file(file.bytes))

\* The loop body of fix_truthy.main.
TruthyBody == fixer = "fix_truthy" /\ LoopBody(truthy_fix_file(file.bytes))

\* The loop body of fix_inside_brackets.main.
BracketsBody ==
    fixer = "fix_inside_brackets" /\ LoopBody(brackets_fix_file(file.bytes))

\* The generator is exhausted and no file was checked:
\* `if checked == 0: print('No YAML files found ...'); return 1`
MainNoFiles ==
    /\ pc = "next"
    /\ checked >= Len(fs)
    /\ checked = 0
    /\ stdout' = "No YAML files found in provided paths."
    /\ exit_code' = 1
    /\ pc' = "exit"
    /\ UNCHANGED <<fixer, checked, changed, file, fs,
                   scanvars, walkvars, docvars, nlvars, callvars>>

\* The generator is exhausted: `print(f"Summary: ..."); return 0`
MainSummary ==
    /\ pc = "next"
    /\ checked >= Len(fs)
    /\ checked # 0
    /\ stdout' = "Summary"
    /\ exit_code' = 0
    /\ pc' = "exit"
    /\ UNCHANGED <<fixer, checked, changed, file, fs,
                   scanvars, walkvars, docvars, nlvars, callvars>>

NextMain ==
    \/ ForNext
    \/ YieldFile
    \/ FqcnBody
    \/ DocstartBody
    \/ TrailingBody
    \/ ColonsBody
    \/ TruthyBody
    \/ BracketsBody
    \/ MainNoFiles
    \/ MainSummary

SpecMain == InitMain /\ [][NextMain]_vars

SpecRun == InitRun /\ [][NextMain]_vars

\* The loop has just handled a file.
Handled == pc = "for" /\ checked > 0

\* C9: a fixer pass rewrites a file only when what it writes differs from
\* the text it read, returns True (printed as "Fixed") only then, and it
\* neither writes nor reports "Fixed" for a file that needs no change.
\* (fix_docstart_newline's flags are C10's.)
C9_WritesOnlyWhenDifferent ==
    (Handled /\ fixer # "fix_docstart_newline") =>
        /\ file.wrote => file.written # file.original
        /\ file.ret <=> file.wrote
        /\ stdout = (IF file.wrote THEN "Fixed" ELSE "No change")

\* C10: fix_docstart_newline.fix_file does not write a file whose first
\* non-blank line is '---' and which ends with a newline, and returns False.
C10_DocstartLeavesNormalizedFile ==
    (/\ Handled
     /\ fixer = "fix_docstart_newline"
     /\ FirstNonBlankIsMarker(splitlines(file.original))
     /\ endswith_newline(file.original)) =>
        (~file.wrote /\ ~file.ret /\ file.disk = file.bytes)

\* The lines a fixer's fix_file makes of the lines of a file, before it
\* joins them.
fixed_lines(fx, lines) ==
    CASE fx = "fix_fqcn" -> fqcn_fixed_lines(lines, 1, NoIndent)
      [] fx = "fix_docstart_newline" -> ensure_document_start(lines)[1]
      [] fx = "fix_trailing_spaces" ->
            [k \in 1..Len(lines) |-> trailing_fixed_line(lines[k])]
      [] fx = "fix_colons" -> [k \in 1..Len(lines) |-> colons_fix_line(lines[k])]
      [] fx = "fix_truthy" ->
            [k \in 1..Len(lines) |-> fix_truth_values_in_line(lines[k])]
      [] fx = "fix_inside_brackets" ->
            [k \in 1..Len(lines) |-> brackets_fix_line(lines[k])]

\* The text of the file as it is on disk after the pass.
TextLeft == read_text(file.disk)

\* C11: for every fixer pass other than fix_docstart_newline, the text left
\* in the file ends with a newline if and only if the original text did.
C11_NewlinePresencePreserved ==
    (Handled /\ fixer # "fix_docstart_newline") =>
        (endswith_newline(TextLeft) <=> endswith_newline(file.original))

\* s is t followed by spaces and tabs only.
OnlyLineEndRemoved(s, t) ==
    /\ Len(t) <= Len(s)
    /\ Before(s, Len(t) + 1) = t
    /\ \A k \in (Len(t) + 1)..Len(s) : s[k] \in {SP, TAB}

\* C12: fix_trailing_spaces.fix_file changes a file only by removing spaces
\* and tabs at the end of lines: the number of lines, what is left of each
\* line, and the number of newlines that end the file are as before.
C12_OnlyTrailingWhitespaceRemoved ==
    (Handled /\ fixer = "fix_trailing_spaces") =>
        LET before == splitlines(file.original)
            after == splitlines(TextLeft)
        IN  /\ Len(after) = Len(before)
            /\ \A k \in 1..Min({Len(before), Len(after)}) :
                  OnlyLineEndRemoved(before[k], after[k])
            /\ TrailingNewlines(TextLeft) = TrailingNewlines(file.original)

\* No line of the file matches a pattern the fixer rewrites: the fixer's
\* transformation of the lines returns them as they are.
NoLineMatches ==
    LET lines == splitlines(file.original)
    IN  fixed_lines(fixer, lines) = lines

\* C13: a fixer pass leaves a file none of whose lines it rewrites
\* byte-for-byte identical, line terminators and final blank lines included.
C13_UnmatchedFileIdentical ==
    (Handled /\ NoLineMatches) => file.disk = file.bytes

\* fix_file of the fixer script fx, as its main calls it.
fix_file(fx, bytes) ==
    CASE fx = "fix_fqcn" -> fqcn_fix_file(bytes)
      [] fx = "fix_docstart_newline" -> docstart_fix_file(bytes)
      [] fx = "fix_trailing_spaces" -> trailing_fix_file(bytes)
      [] fx = "fix_colons" -> colons_fix_file(bytes)
      [] fx = "fix_truthy" -> truthy_fix_file(bytes)
      [] fx = "fix_inside_brackets" -> brackets_fix_file(bytes)

\* Processing file f raises: it cannot be decoded, or the fixer writes it
\* and it may not be written.
FileRaises(f) ==
    \/ \E k \in 1..Len(f.bytes) : f.bytes[k] = XFF
    \/ ~f.writable /\ fix_file(fixer, f.bytes).wrote

\* C14: main returns 0 exactly when at least one YAML file was found and no
\* file raised (whether or not a file changed), 1 exactly when no YAML file
\* was found, and 2 exactly when processing a file raised.
C14_ExitCodes ==
    /\ pc # "exit" => exit_code = NotExited
    /\ pc = "exit" =>
        /\ exit_code \in {0, 1, 2}
        /\ exit_code = 0 <=> (Len(fs) > 0 /\ \A k \in 1..Len(fs) : ~FileRaises(fs[k]))
        /\ exit_code = 1 <=> Len(fs) = 0
        /\ exit_code = 2 <=> \E k \in 1..Len(fs) : FileRaises(fs[k])

\* A run over files none of which changed returns 0, not 1.
C14_Witness ==
    pc = "exit" /\ exit_code = 0 /\ checked = MaxFiles /\ changed = 0

\* C15: files are processed one after another in the order found; when
\* fix_file raises, the run stops at once: the step prints the error and
\* returns 2 without touching the disk, nothing happens after main has
\* returned (no later file is read or written, no summary is printed), and
\* the files processed before are as the run left them.
C15_StopsAtFirstFailure ==
    /\ [](exit_code = 2 => (pc = "exit" /\ stdout = "Error"))
    /\ [][/\ pc # "exit"
          /\ Len(fs') = Len(fs)
          /\ checked' \in {checked, checked + 1}
          /\ \A k \in 1..Len(fs) :
                fs'[k] # fs[k] => (pc = "body" /\ k = checked + 1 /\ checked' = k)
          /\ (pc = "body" /\ FileRaises(fs[checked + 1])) =>
                (pc' = "exit" /\ exit_code' = 2 /\ stdout' = "Error" /\ fs' = fs)
          /\ file'.bytes # file.bytes =>
                (file' = NoFile \/ (pc = "next" /\ file'.bytes = fs[checked + 1].bytes))
         ]_vars

\* The second of three files raised after the first was rewritten.
C15_Witness ==
    /\ exit_code = 2
    /\ Len(fs) = 3
    /\ checked = 2
    /\ changed = 1

\* ------------------------------------------------------------------------
\* The line functions of the fixers, each called on a line.

\* The concatenation of a list of pieces.
flatten(pieces) == join(<<>>, pieces)

\* The lines made of up to n of the given pieces.
LinesOf(pieces, n) == {flatten(ps) : ps \in SeqsUpTo(pieces, n)}

\* Before the call: the line it will be given.
InitCall(lines) ==
    /\ call_arg \in lines
    /\ call_fn = None
    /\ call_ret = <<>>
    /\ ScanIdle
    /\ WalkIdle
    /\ DocIdle
    /\ NlIdle
    /\ MainIdle

\* The call of function fn, which returns `result`.
Call(fn, result) ==
    /\ call_fn = None
    /\ call_fn' = fn
    /\ call_ret' = result
    /\ UNCHANGED <<call_arg, scanvars, walkvars, docvars, nlvars, mainvars>>

\* The characters of l at the positions in S, in their order.
RECURSIVE Pick(_, _, _)
Pick(l, k, S) ==
    IF k > Len(l) THEN <<>>
    ELSE (IF k \in S THEN <<l[k]>> ELSE <<>>) \o Pick(l, k + 1, S)

\* The positions of l in a quoted string: from an unescaped quote character
\* to the next unescaped one of the same kind, both included.
QuotedPositions(l) ==
    LET spans == QuoteSpans(l)
    IN  {k \in 1..Len(l) : \E s \in spans : s.closed /\ s.open <= k /\ k <= s.close}

\* The quoted strings of l, quote characters included, one after another.
QuotedChars(l) == Pick(l, 1, QuotedPositions(l))

\* ------------------------------------------------------------------------
\* fix_colons on a line

\* 'a', ':', ':  ' (a colon and two spaces), ' ', '{', '}', '"' and ','.
ColonsPieces ==
    { <<"a">>, <<":">>, <<":", SP, SP>>, <<SP>>, <<"{">>, <<"}">>, <<DQ>>, <<",">> }

\* The lines of the module docstring, 'x: {{ a }}', 'msg: "a:  b"' and
\* '- "a:  b"'.
ColonsExamples ==
    { <<"k", "e", "y", ":", " ", " ", " ", "v", "a", "l", "u", "e">>,
      <<"-", " ", "m", "o", "d", "u", "l", "e", ":", " ", " ", " ", " ",
        "p", "a", "r", "a", "m", "=", "v", "a", "l">>,
      <<"{", " ", "a", ":", " ", " ", "1", ",", " ", "b", ":", " ", " ", "2", " ", "}">>,
      <<"x", ":", " ", "{", "{", " ", "a", " ", "}", "}">>,
      <<"m", "s", "g", ":", " ", DQ, "a", ":", " ", " ", "b", DQ>>,
      <<"-", " ", DQ, "a", ":", " ", " ", "b", DQ>> }

ColonsLines == LinesOf(ColonsPieces, MaxColonsPieces) \cup ColonsExamples

InitColons == InitCall(ColonsLines)

CompressAfterFirstMappingColon ==
    Call("compress_after_first_mapping_colon",
         compress_after_first_mapping_colon(call_arg))

NormalizeInlineMapColons ==
    Call("normalize_inline_map_colons", normalize_inline_map_colons(call_arg))

ColonsFixLine == Call("fix_colons.fix_line", colons_fix_line(call_arg))

NextColons ==
    \/ CompressAfterFirstMappingColon
    \/ NormalizeInlineMapColons
    \/ ColonsFixLine

SpecColons == InitColons /\ [][NextColons]_vars

\* C18: fix_colons.fix_line leaves colons inside quoted strings untouched:
\* the characters inside the quoted spans of the line, the spaces that
\* follow a colon there included, are the same in the output as in the input.
C18_QuotedColonsUntouched ==
    call_fn = "fix_colons.fix_line" => QuotedChars(call_ret) = QuotedChars(call_arg)

\* Position k of c is inside a one-line brace pair: between a '{' and the
\* next brace after it, which is a '}'.
InBracePair(c, k) ==
    \E o \in 1..(k - 1) : \E e \in (k + 1)..Len(c) :
        /\ c[o] = "{"
        /\ c[e] = "}"
        /\ \A r \in (o + 1)..(e - 1) : c[r] \notin {"{", "}"}

\* An unquoted ':' inside a one-line brace pair.
MapColon(c, k) == c[k] = ":" /\ k \notin QuotedPositions(c) /\ InBracePair(c, k)

\* A space of a run of spaces that follows such a colon, other than the
\* first of the run.
SurplusSpace(c, k) ==
    /\ c[k] = SP
    /\ \E m \in 1..(k - 2) :
          MapColon(c, m) /\ \A r \in (m + 1)..k : c[r] = SP

\* The code with each run of spaces after such a colon reduced to one space.
InlineMapColonsReduced(c) == Pick(c, 1, {k \in 1..Len(c) : ~SurplusSpace(c, k)})

\* C19: normalize_inline_map_colons changes only the runs of spaces that
\* follow an unquoted ':' inside a one-line brace pair, reducing each to a
\* single space; every other character of the code is unchanged, the spaces
\* next to the braces and the contents of {{ ... }} included.
C19_OnlyColonSpacesReduced ==
    call_fn = "normalize_inline_map_colons" =>
        call_ret = InlineMapColonsReduced(call_arg)

\* ------------------------------------------------------------------------
\* fix_truthy on a line

\* 'a', ':', ' ', '=', 'yes', 'no', ',' and "'".
TruthyPieces ==
    { <<"a">>, <<":">>, <<SP>>, <<"=">>, <<"y", "e", "s">>, <<"n", "o">>,
      <<",">>, <<SQ>> }

\* 'a: yes, b: yes', "{a: no, 'x': no}", 'a: On # b: off', "a: 'yes'",
\* 'a=Off b=NO' and 'a: yes, b: no, c: on'.
TruthyExamples ==
    { <<"a", ":", " ", "y", "e", "s", ",", " ", "b", ":", " ", "y", "e", "s">>,
      <<"{", "a", ":", " ", "n", "o", ",", " ", SQ, "x", SQ, ":", " ", "n", "o", "}">>,
      <<"a", ":", " ", "O", "n", " ", "#", " ", "b", ":", " ", "o", "f", "f">>,
      <<"a", ":", " ", SQ, "y", "e", "s", SQ>>,
      <<"a", "=", "O", "f", "f", " ", "b", "=", "N", "O">>,
      <<"a", ":", " ", "y", "e", "s", ",", " ", "b", ":", " ", "n", "o", ",", " ",
        "c", ":", " ", "o", "n">> }

TruthyLines == LinesOf(TruthyPieces, MaxTruthyPieces) \cup TruthyExamples

InitTruthy == InitCall(TruthyLines)

FixTruthValuesInLine ==
    Call("fix_truth_values_in_line", fix_truth_values_in_line(call_arg))

NextTruthy == FixTruthValuesInLine

SpecTruthy == InitTruthy /\ [][NextTruthy]_vars

\* The code and the comment of the line the call was given.
ArgCode == split_code_and_comment(call_arg)[1]

ArgComment == split_code_and_comment(call_arg)[2]

\* What the call returned, less the comment of the line: the code it made.
RetCode == Before(call_ret, Len(call_ret) - Len(ArgComment) + 1)

\* A truth token starts at position k of the code: one of the listed
\* spellings, after a ':' or '=' and optional white space, before white
\* space, the end of the code, ',', '}' or ']', and not in a quoted string.
TruthTokensAt(c, k) ==
    {j \in 1..Len(TRUTH_VALUES) :
        LET old == TRUTH_VALUES[j].old
            e == k + Len(old)
        IN  /\ occurs_at(c, k, old)
            /\ \E q \in 1..(k - 1) :
                  c[q] \in {":", "="} /\ \A r \in (q + 1)..(k - 1) : is_space(c[r])
            /\ (e > Len(c) \/ is_space(c[e]) \/ c[e] \in {",", "}", "]"})
            /\ k \notin QuotedPositions(c)}

\* The code from position k on with every truth token replaced.
RECURSIVE TruthTokensReplaced(_, _)
TruthTokensReplaced(c, k) ==
    IF k > Len(c) THEN <<>>
    ELSE LET toks == TruthTokensAt(c, k)
         IN  IF toks = {}
             THEN <<c[k]>> \o TruthTokensReplaced(c, k + 1)
             ELSE LET tv == TRUTH_VALUES[Min(toks)]
                  IN  tv.new \o TruthTokensReplaced(c, k + Len(tv.old))

\* C16: fix_truth_values_in_line returns the line with each unquoted
\* yes/no/on/off token that follows ':' or '=' and is followed by a
\* delimiter replaced by true or false, and every other character
\* unchanged, for lines with any number of such tokens.
C16_EveryTokenReplaced ==
    call_fn = "fix_truth_values_in_line" =>
        call_ret = TruthTokensReplaced(ArgCode, 1) \o ArgComment

\* C17: fix_truth_values_in_line changes no character inside a quoted span
\* of the code and no character of the comment.
C17_QuotedAndCommentKept ==
    call_fn = "fix_truth_values_in_line" =>
        /\ Len(call_ret) >= Len(ArgComment)
        /\ From(call_ret, Len(call_ret) - Len(ArgComment) + 1) = ArgComment
        /\ QuotedChars(RetCode) = QuotedChars(ArgCode)

\* ------------------------------------------------------------------------
\* fix_inside_brackets on a line

\* 'a', '[', ']', ',', ' ', '"', '{{' and '}}'.
BracketsPieces ==
    { <<"a">>, <<"[">>, <<"]">>, <<",">>, <<SP>>, <<DQ>>, <<"{", "{">>, <<"}", "}">> }

\* The lines of the module docstring, '[ a , b ]', 'x: [a, [b], c]' and
\* 'x: ["a]", b]'.
BracketsExamples ==
    { <<"{", "{", "v", "a", "r", "}", "}">>,
      <<"{", "{", " ", " ", "e", "x", "p", "r", " ", " ", "}", "}">>,
      <<"{", "%", "b", "l", "o", "c", "k", "%", "}">>,
      <<"[", " ", "a", " ", ",", " ", "b", " ", "]">>,
      <<"x", ":", " ", "[", "a", ",", " ", "[", "b", "]", ",", " ", "c", "]">>,
      <<"x", ":", " ", "[", DQ, "a", "]", DQ, ",", " ", "b", "]">> }

BracketsLines == LinesOf(BracketsPieces, MaxBracketsPieces) \cup BracketsExamples

InitBrackets == InitCall(BracketsLines)

NormalizeJinjaSpacing ==
    Call("_normalize_jinja_spacing", _normalize_jinja_spacing(call_arg))

NormalizeFlowListsOutsideQuotes ==
    Call("_normalize_flow_lists_outside_quotes",
         _normalize_flow_lists_outside_quotes(call_arg))

BracketsFixLine == Call("fix_inside_brackets.fix_line", brackets_fix_line(call_arg))

NextBrackets ==
    \/ NormalizeJinjaSpacing
    \/ NormalizeFlowListsOutsideQuotes
    \/ BracketsFixLine

SpecBrackets == InitBrackets /\ [][NextBrackets]_vars

\* The characters of l that are not white space, in their order.
NonWhitespace(l) == Pick(l, 1, {k \in 1..Len(l) : ~is_space(l[k])})

\* C20: fix_inside_brackets.fix_line alters nothing but spacing: the
\* non-white-space characters of the output are those of the input, in
\* the same order, also for nested flow lists and quoted items with ']'.
C20_OnlySpacingChanged ==
    call_fn = "fix_inside_brackets.fix_line" =>
        NonWhitespace(call_ret) = NonWhitespace(call_arg)

\* ------------------------------------------------------------------------
\* shared.split_code_and_comment: escaped and unterminated quotes.

\* C24: a quote character immediately preceded by a backslash never toggles
\* either quote state, single or double; every other quote character that is
\* not inside the other kind of quote toggles its own state.
C24_EscapedQuoteNeverToggles ==
    [][i' # i =>
        LET after_backslash == i > 1 /\ line[i - 1] = BSLASH
        IN  /\ (line[i] \in {SQ, DQ} /\ after_backslash) =>
                (in_single' = in_single /\ in_double' = in_double)
            /\ (line[i] = SQ /\ ~after_backslash /\ ~in_double) =>
                (in_single' = ~in_single /\ in_double' = in_double)
            /\ (line[i] = DQ /\ ~after_backslash /\ ~in_single) =>
                (in_double' = ~in_double /\ in_single' = in_single)]_vars

\* The scanner has passed an escaped double quote and an escaped single
\* quote with both states still unset, and split at the '#' after them.
C24_Witness ==
    /\ ScanDone
    /\ line = <<BSLASH, DQ, BSLASH, SQ, HASH>>
    /\ ~in_single
    /\ ~in_double
    /\ comment = <<HASH>>

\* The quoted span of the line that is never closed, if there is one.
UnterminatedSpans(l) == {s \in QuoteSpans(l) : ~s.closed}

\* C25: every line is accepted (the scan never indexes outside the line and
\* ends with a pair of strings), and when a quote is opened and never closed
\* no '#' after it starts the comment: the whole line is returned as code
\* unless an unquoted '#' occurred before the unterminated quote.
C25_UnterminatedQuoteSwallowsRest ==
    /\ i \in 1..(Len(line) + 1)
    /\ ScanDone =>
        /\ scan_ret = <<code, comment>>
        /\ Len(code) + Len(comment) = Len(line)
        /\ \A s \in UnterminatedSpans(line) :
              LET earlier == {h \in Hashes(line) : h < s.open /\ ~InsideSpan(line, h)}
              IN  IF earlier = {}
                  THEN code = line /\ comment = <<>>
                  ELSE SplitPos = Min(earlier)

\* A line with a '#' after a quote that is never closed came back whole.
C25_Witness ==
    /\ ScanDone
    /\ UnterminatedSpans(line) # {}
    /\ \E s \in UnterminatedSpans(line) : \E h \in Hashes(line) : h > s.open
    /\ code = line
    /\ comment = <<>>

\* ------------------------------------------------------------------------
\* shared.ensure_document_start: what is prepended.

FqcnLineChoices ==
    { <<"-", SP, "c", "o", "p", "y", ":", SP, "x">>,
      <<SP, SP, "c", "o", "p", "y", ":", SP, "x", SP, HASH, SP, "c", "o",
        "p", "y", ":">>,
      <<SP, SP, SP, SP, "f", "i", "l", "e", ":", SP, "x">>,
      <<SP, SP, "-", SP, "n", "a", "m", "e", ":", SP, "a">>,
      <<SP, SP, "c", "o", "p", "y", ":", SP, "a", "n", "s", "i", "b", "l",
        "e", ".", "b", "u", "i", "l", "t", "i", "n", ".", "c", "o", "p", "y">>,
      <<"c", "o", "p", "y", ":", SP, "x">>,
      <<"-", "c", "o", "p", "y", ":">>,
      <<SP, SP, "r", "e", "d", "f", "i", "s", "h", "_", "c", "o", "m", "m",
        "a", "n", "d", ":">> }

InitFqcn == InitCall(SeqsUpTo(FqcnLineChoices, MaxFqcnLines))

\* `for line in lines: ... fixed.append(code + comment)`, on the lines first
\* passed in and then on the lines it produced.
FqcnFixFile ==
    /\ Len(call_ret) < MaxApply
    /\ LET lines == IF call_ret = <<>> THEN call_arg ELSE call_ret[Len(call_ret)]
       IN  call_ret' = Append(call_ret, fqcn_fixed_lines(lines, 1, NoIndent))
    /\ call_fn' = "fix_fqcn.fix_file"
    /\ UNCHANGED <<call_arg, scanvars, walkvars, docvars, nlvars, mainvars>>

NextFqcn == FqcnFixFile

SpecFqcn == InitFqcn /\ [][NextFqcn]_vars

\* The code and the comment of a line.
CodeOf(l) == split_code_and_comment(l)[1]

CommentOf(l) == split_code_and_comment(l)[2]

\* The number of white space characters a text begins with.
Indent(c) == Cardinality({k \in 1..Len(c) : \A j \in 1..k : is_space(c[j])})

\* A line whose code is a list dash: indentation, '-', white space.
IsListDash(l) ==
    LET c == CodeOf(l)
        n == Indent(c)
    IN  n + 2 <= Len(c) /\ c[n + 1] = "-" /\ is_space(c[n + 2])

\* The task-key indent at line j of a list of lines: the indent of the most
\* recent list dash, at line j or before it, plus 2; NoIndent without one.
TaskKeyIndent(lines, j) ==
    LET dashes == {k \in 1..j : IsListDash(lines[k])}
    IN  IF dashes = {} THEN NoIndent
        ELSE Indent(CodeOf(lines[Max(dashes)])) + 2

\* pre is what stands before a key that directly follows the list dash.
AfterDash(pre) ==
    \E d \in 1..Len(pre) :
        /\ pre[d] = "-"
        /\ \A k \in 1..Len(pre) : k # d => is_space(pre[k])

\* pre is an indentation of exactly n spaces.
SpacesOnly(pre, n) == n # NoIndent /\ Len(pre) = n /\ \A k \in 1..n : pre[k] = SP

\* Line r is line a with one short module key replaced by its FQCN, the key
\* standing after the dash or at the task-key indent, in a code that did not
\* contain that FQCN, and with the comment of a kept.
KeyReplaced(a, r, task_key_indent) ==
    \E j \in 1..Len(FQCN_MAPPINGS) :
        \E pos \in 1..Len(a) :
            LET m == FQCN_MAPPINGS[j]
                pre == Before(a, pos)
                post == From(a, pos + Len(m.short) + 1)
            IN  /\ a = pre \o m.short \o <<":">> \o post
                /\ r = pre \o m.fqcn \o <<":">> \o post
                /\ AfterDash(pre) \/ SpacesOnly(pre, task_key_indent)
                /\ pos + Len(m.short) <= Len(CodeOf(a))
                /\ ~contains(CodeOf(a), m.fqcn)
                /\ CommentOf(r) = CommentOf(a)

\* C27: fix_fqcn.fix_file changes a line only by replacing one short module
\* key with its FQCN, the key directly following the list dash or starting
\* at the task-key indent; a line whose code contains the FQCN is unchanged,
\* every comment is kept, and a second application changes no line.
C27_OnlyModuleKeyReplaced ==
    \A k \in 1..Len(call_ret) :
        LET arg == IF k = 1 THEN call_arg ELSE call_ret[k - 1]
            out == call_ret[k]
        IN  /\ Len(out) = Len(arg)
            /\ \A j \in 1..Min({Len(arg), Len(out)}) :
                  \/ out[j] = arg[j]
                  \/ KeyReplaced(arg[j], out[j], TaskKeyIndent(arg, j))
            /\ k > 1 => out = arg

\* A key after the dash and a key at the task-key indent were replaced, the
\* comment was kept, and the second application changed nothing.
C27_Witness ==
    /\ Len(call_ret) = 2
    /\ call_arg = << <<"-", SP, "c", "o", "p", "y", ":", SP, "x">>,
                     <<SP, SP, "c", "o", "p", "y", ":", SP, "x", SP, HASH,
                       SP, "c", "o", "p", "y", ":">> >>
    /\ call_ret[1] = << <<"-", SP, "a", "n", "s", "i", "b", "l", "e", ".",
                          "b", "u", "i", "l", "t", "i", "n", ".", "c", "o",
                          "p", "y", ":", SP, "x">>,
                        <<SP, SP, "a", "n", "s", "i", "b", "l", "e", ".",
                          "b", "u", "i", "l", "t", "i", "n", ".", "c", "o",
                          "p", "y", ":", SP, "x", SP, HASH, SP, "c", "o",
                          "p", "y", ":">> >>
    /\ call_ret[2] = call_ret[1]

\* ------------------------------------------------------------------------
\* fix_indent_quotes: fix_quotes and normalize_scalar_quotes

\* `(true|false|\d+)`, matched in full.
is_bool_or_number(s) ==
    \/ s = <<"t", "r", "u", "e">>
    \/ s = <<"f", "a", "l", "s", "e">>
    \/ s # <<>> /\ \A k \in 1..Len(s) : s[k] \in {"0", "1", "2", "3", "4", "5", "6", "7", "8", "9"}

\* The position of the first character ch of c at or after position from;
\* 0 when there is none.
index_from(c, from, ch) ==
    LET at == {k \in from..Len(c) : c[k] = ch}
    IN  IF at = {} THEN 0 ELSE Min(at)

\* `[^"]*\{\{[^}]*\}\}[^"]*` matches all of s: s holds no double quote, and
\* after some '{{' the first '}' is followed by another.
has_jinja_expression(s) ==
    /\ \A k \in 1..Len(s) : s[k] # DQ
    /\ \E k \in 1..Len(s) :
          /\ occurs_at(s, k, <<"{", "{">>)
          /\ LET cl == index_from(s, k + 2, "}")
             IN  cl # 0 /\ cl < Len(s) /\ s[cl + 1] = "}"

\* `when:\s*"([^"]*\{\{[^}]*\}\}[^"]*)"` matched at position p of the code:
\* the position of the closing quote, 0 when there is no match at p.
when_match_end(c, p) ==
    LET q == p + 5 + ws_run(c, p + 5)
        e == index_from(c, q + 1, DQ)
    IN  IF /\ occurs_at(c, p, <<"w", "h", "e", "n", ":">>)
           /\ q <= Len(c) /\ c[q] = DQ
           /\ e # 0
           /\ has_jinja_expression(SubSeq(c, q + 1, e - 1))
        THEN e ELSE 0

\* `re.sub(r'when:\s*"(...)"', r'when: \1', code)` from position k on.
RECURSIVE unquote_when(_, _)
unquote_when(c, k) ==
    IF k > Len(c) THEN <<>>
    ELSE LET e == when_match_end(c, k)
             q == k + 5 + ws_run(c, k + 5)
         IN  IF e # 0
             THEN <<"w", "h", "e", "n", ":", SP>> \o SubSeq(c, q + 1, e - 1)
                  \o unquote_when(c, e + 1)
             ELSE <<c[k]>> \o unquote_when(c, k + 1)

\* `:\s*"(true|false|\d+)"` matched at position p of the code: the position
\* of the closing quote, 0 when there is no match at p.
scalar_match_end(c, p) ==
    LET q == p + 1 + ws_run(c, p + 1)
        e == index_from(c, q + 1, DQ)
    IN  IF /\ p <= Len(c) /\ c[p] = ":"
           /\ q <= Len(c) /\ c[q] = DQ
           /\ e # 0
           /\ is_bool_or_number(SubSeq(c, q + 1, e - 1))
        THEN e ELSE 0

\* `re.sub(r':\s*"(true|false|\d+)"', r': \1', code)` from position k on.
RECURSIVE unquote_scalar(_, _)
unquote_scalar(c, k) ==
    IF k > Len(c) THEN <<>>
    ELSE LET e == scalar_match_end(c, k)
             q == k + 1 + ws_run(c, k + 1)
         IN  IF e # 0
             THEN <<":", SP>> \o SubSeq(c, q + 1, e - 1) \o unquote_scalar(c, e + 1)
             ELSE <<c[k]>> \o unquote_scalar(c, k + 1)

\* `re.match(r'^(\s*)([^\-\s][^:]*?):\s*(.+)$', code)`: the key starts at the
\* first character that is not white space, which may not be a dash, and
\* ends before the first colon after it; the value is what follows the
\* white space after that colon, or the last white space character when
\* nothing else follows.
parse_key_value_line(c) ==
    LET ks == ws_run(c, 1) + 1
        colon == index_from(c, ks + 1, ":")
        vs == colon + 1 + ws_run(c, colon + 1)
    IN  IF ks > Len(c) \/ c[ks] = "-" \/ colon = 0 \/ colon = Len(c)
        THEN [ok |-> FALSE, indent |-> <<>>, key |-> <<>>, value |-> <<>>]
        ELSE [ok |-> TRUE,
              indent |-> Before(c, ks),
              key |-> SubSeq(c, ks, colon - 1),
              value |-> IF vs <= Len(c) THEN From(c, vs) ELSE <<c[Len(c)]>>]

\* `'{{' in val or '{%' in val or '}}' in val or '%}' in val`
has_jinja_delimiter(val) ==
    \/ contains(val, <<"{", "{">>)
    \/ contains(val, <<"{", "%">>)
    \/ contains(val, <<"%", "}">>)
    \/ contains(val, <<"}", "}">>)

needs_quotes(val) ==
    IF val = <<>> THEN FALSE
    ELSE IF Head(val) \in {">", "|"} THEN FALSE
    ELSE IF is_bool_or_number(val) THEN FALSE
    ELSE IF \/ contains(val, <<":", SP>>)
            \/ Head(val) \in {"{", "["}
            \/ has_jinja_delimiter(val)
         THEN TRUE
    ELSE val # strip(val)

\* The inner text of a value wrapped in a pair of the same quote character.
unwrap(val) ==
    IF /\ Len(val) >= 2
       /\ \/ Head(val) = DQ /\ val[Len(val)] = DQ
          \/ Head(val) = SQ /\ val[Len(val)] = SQ
    THEN SubSeq(val, 2, Len(val) - 1)
    ELSE val

quote_with(val, quote) ==
    IF quote = SQ
    THEN <<SQ>> \o replace_all(val, <<SQ>>, <<SQ, SQ>>) \o <<SQ>>
    ELSE <<DQ>> \o replace_all(val, <<DQ>>, <<BSLASH, DQ>>) \o <<DQ>>

choose_quote(val) ==
    IF has_jinja_delimiter(val) THEN DQ
    ELSE IF contains(val, <<SQ>>) /\ ~contains(val, <<DQ>>) THEN DQ
    ELSE IF contains(val, <<DQ>>) /\ ~contains(val, <<SQ>>) THEN SQ
    ELSE DQ

normalize_scalar_quotes(c) ==
    LET parsed == parse_key_value_line(c)
        value == parsed.value
        inner == unwrap(value)
        new_val ==
            IF strip(parsed.key) = <<"n", "a", "m", "e">> THEN quote_with(inner, DQ)
            ELSE IF needs_quotes(inner) THEN quote_with(inner, choose_quote(inner))
            ELSE inner
    IN  IF ~parsed.ok THEN c
        ELSE IF contains(value, <<"=">>) /\ Head(value) \notin {DQ, SQ} THEN c
        ELSE IF is_bool_or_number(inner) THEN c
        ELSE parsed.indent \o parsed.key \o <<":", SP>> \o new_val

fix_quotes(l) ==
    LET cc == split_code_and_comment(l)
        stripped == lstrip(cc[1])
    IN  IF stripped # <<>> /\ Head(stripped) = HASH THEN l
        ELSE normalize_scalar_quotes(unquote_scalar(unquote_when(cc[1], 1), 1)) \o cc[2]

\* What the lines given to fix_quotes are made of.
QuotesPieces ==
    { <<"w", "h", "e", "n", ":">>, <<SP>>, <<DQ>>, <<"{", "{">>, <<"}", "}">>,
      <<"x">>, <<"=">>, <<"1">>, <<HASH>> }

\* Scenario 2 of the specification, 'when: "{{ x }}"', '  when: "a {{ x }}"',
\* 'name: "{{ x }}"', 'when: "{{ x }}" # c' and 'a: "true"'.
QuotesExamples ==
    { <<"w", "h", "e", "n", ":", SP, DQ, "{", "{", SP, "x", SP, "=", "=", SP,
        "1", SP, "}", "}", DQ>>,
      <<"w", "h", "e", "n", ":", SP, DQ, "{", "{", SP, "x", SP, "}", "}", DQ>>,
      <<SP, SP, "w", "h", "e", "n", ":", SP, DQ, "a", SP, "{", "{", SP, "x",
        SP, "}", "}", DQ>>,
      <<"n", "a", "m", "e", ":", SP, DQ, "{", "{", SP, "x", SP, "}", "}", DQ>>,
      <<"w", "h", "e", "n", ":", SP, DQ, "{", "{", SP, "x", SP, "}", "}", DQ,
        SP, HASH, SP, "c">>,
      <<"a", ":", SP, DQ, "t", "r", "u", "e", DQ>> }

QuotesLines == LinesOf(QuotesPieces, MaxQuotesPieces) \cup QuotesExamples

InitQuotes == InitCall(QuotesLines)

NormalizeScalarQuotes ==
    Call("normalize_scalar_quotes", normalize_scalar_quotes(call_arg))

FixQuotes == Call("fix_quotes", fix_quotes(call_arg))

NextQuotes == NormalizeScalarQuotes \/ FixQuotes

SpecQuotes == InitQuotes /\ [][NextQuotes]_vars

\* s holds a Jinja expression: '{{', later '}}'.
HoldsJinja(s) ==
    \E a \in 1..Len(s) : \E b \in (a + 2)..Len(s) :
        occurs_at(s, a, <<"{", "{">>) /\ occurs_at(s, b, <<"}", "}">>)

\* The line is `when: "<s>"` after n spaces, s holding a Jinja expression
\* and no double quote.
IsQuotedWhen(l, n, s) ==
    /\ l = [k \in 1..n |-> SP] \o <<"w", "h", "e", "n", ":", SP>> \o <<DQ>> \o s \o <<DQ>>
    /\ HoldsJinja(s)
    /\ \A k \in 1..Len(s) : s[k] # DQ

\* C21: for every line of the form when: "<s>", s holding a Jinja expression
\* and no double quote, fix_quotes returns when: <s>, without the quotes.
C21_WhenUnquoted ==
    call_fn = "fix_quotes" =>
        \A n \in 0..Len(call_arg) :
            LET s == SubSeq(call_arg, n + 8, Len(call_arg) - 1)
            IN  IsQuotedWhen(call_arg, n, s) =>
                    call_ret = [k \in 1..n |-> SP] \o <<"w", "h", "e", "n", ":", SP>> \o s

\* ------------------------------------------------------------------------
\* fix_line_length_vars: is_var_definition, wrap_text and fix_line

\* str.lower(), on the letters that occur in the keys below.
key_lower_char(c) ==
    CASE c = "K" -> "k"
      [] c = "N" -> "n"
      [] c = "W" -> "w"
      [] OTHER -> lower_char(c)

\* `key.strip().lower()`
key_lower(key) == LET s == strip(key) IN [k \in 1..Len(s) |-> key_lower_char(s[k])]

SKIP_KEYS == { <<"n", "a", "m", "e">>, <<"w", "h", "e", "n">>, <<"t", "a", "g", "s">> }

\* The regex is the one of fix_indent_quotes.parse_key_value_line; keys that
\* are skipped do not count as variable definitions.
is_var_definition(c) ==
    LET m == parse_key_value_line(c)
        key_l == key_lower(m.key)
    IN  IF ~m.ok \/ key_l \in SKIP_KEYS \/ occurs_at(key_l, 1, <<"w", "i", "t", "h", "_">>)
        THEN [ok |-> FALSE, indent |-> <<>>, key |-> <<>>, value |-> <<>>]
        ELSE m

strip_outer_quotes(text) ==
    IF /\ Len(text) >= 2
       /\ \/ Head(text) = DQ /\ text[Len(text)] = DQ
          \/ Head(text) = SQ /\ text[Len(text)] = SQ
    THEN SubSeq(text, 2, Len(text) - 1)
    ELSE text

\* str.split(): the maximal runs of characters that are not white space.
split_words(text) ==
    LET starts == {k \in 1..Len(text) :
                      ~is_space(text[k]) /\ (k = 1 \/ is_space(text[k - 1]))}
        word(k) == SubSeq(text, k, Min({e \in k..Len(text) :
                                           e = Len(text) \/ is_space(text[e + 1])}))
    IN  [j \in 1..Cardinality(starts) |->
            word(CHOOSE k \in starts : Cardinality({m \in starts : m <= k}) = j)]

\* The loop of wrap_text from word k on, with the line `cur` being filled.
RECURSIVE wrap_words(_, _, _, _)
wrap_words(words, k, cur, width) ==
    IF k > Len(words) THEN <<cur>>
    ELSE IF Len(cur) + 1 + Len(words[k]) <= width
         THEN wrap_words(words, k + 1, cur \o <<SP>> \o words[k], width)
         ELSE <<cur>> \o wrap_words(words, k + 1, words[k], width)

wrap_text(text, width) ==
    LET words == split_words(text)
    IN  IF words = <<>> THEN << <<>> >>
        ELSE wrap_words(words, 2, words[1], IF width <= 10 THEN 10 ELSE width)

\* fix_line: None, or the header line followed by the content lines.
length_fix_line(c, max_length) ==
    LET m == is_var_definition(c)
        content_indent == m.indent \o <<SP, SP>>
        wrapped == wrap_text(strip_outer_quotes(m.value), max_length - Len(content_indent))
    IN  IF ~m.ok THEN None
        ELSE IF Len(c) <= max_length THEN None
        ELSE << m.indent \o m.key \o <<":", SP, ">">> >>
             \o [k \in 1..Len(wrapped) |-> content_indent \o wrapped[k]]

\* What the codes given to fix_line are made of.
WrapPieces ==
    { <<"k", ":">>, <<SP>>, <<SP, SP, SP, SP>>, <<"a", "a">>,
      <<"a", "a", "a", "a", "a", "a", "a", "a", "a", "a", "a", "a", "a">>, <<"-">>, <<DQ>> }

\* 'k: aa aa aa aa aa', '  k: "aa aa aa aa"', 'k: aa aa aa aa # c' and
\* 'name: aa aa aa aa'.
WrapExamples ==
    { <<"k", ":", SP, "a", "a", SP, "a", "a", SP, "a", "a", SP, "a", "a", SP,
        "a", "a">>,
      <<SP, SP, "k", ":", SP, DQ, "a", "a", SP, "a", "a", SP, "a", "a", SP,
        "a", "a", DQ>>,
      <<"k", ":", SP, "a", "a", SP, "a", "a", SP, "a", "a", SP, "a", "a", SP,
        HASH, SP, "c">>,
      <<"n", "a", "m", "e", ":", SP, "a", "a", SP, "a", "a", SP, "a", "a",
        SP, "a", "a">> }

\* Values of --max-length.
MaxLengths == {12, 16}

InitWrap == InitCall((LinesOf(WrapPieces, MaxWrapPieces) \cup WrapExamples) \X MaxLengths)

WrapText == Call("wrap_text", wrap_text(call_arg[1], call_arg[2]))

LengthFixLine ==
    Call("fix_line_length_vars.fix_line", length_fix_line(call_arg[1], call_arg[2]))

NextWrap == WrapText \/ LengthFixLine

SpecWrap == InitWrap /\ [][NextWrap]_vars

\* C23: whenever fix_line replaces a line, every content line under the
\* folded-scalar header is at most max_length long, and a code that is not
\* longer than max_length is never replaced.
C23_WrappedWithinMaxLength ==
    call_fn = "fix_line_length_vars.fix_line" =>
        /\ Len(call_arg[1]) <= call_arg[2] => call_ret = None
        /\ call_ret # None =>
              \A k \in 2..Len(call_ret) : Len(call_ret[k]) <= call_arg[2]

\* ------------------------------------------------------------------------
\* fix_ansible_lint_easy: the line functions

Lowercase ==
    <<"a", "b", "c", "d", "e", "f", "g", "h", "i", "j", "k", "l", "m", "n",
      "o", "p", "q", "r", "s", "t", "u", "v", "w", "x", "y", "z">>

Uppercase ==
    <<"A", "B", "C", "D", "E", "F", "G", "H", "I", "J", "K", "L", "M", "N",
      "O", "P", "Q", "R", "S", "T", "U", "V", "W", "X", "Y", "Z">>

\* str.isalpha(), str.islower(), str.upper() and str.lower() of a character,
\* on the letters of ASCII.
is_lower(c) == \E k \in 1..26 : Lowercase[k] = c

is_upper(c) == \E k \in 1..26 : Uppercase[k] = c

is_alpha(c) == is_lower(c) \/ is_upper(c)

to_upper(c) == IF is_lower(c) THEN Uppercase[CHOOSE k \in 1..26 : Lowercase[k] = c] ELSE c

to_lower(c) == IF is_upper(c) THEN Lowercase[CHOOSE k \in 1..26 : Uppercase[k] = c] ELSE c

capitalize_first_alpha(s) ==
    LET alphas == {k \in 1..Len(s) : is_alpha(s[k])}
    IN  IF alphas = {} THEN s
        ELSE [k \in 1..Len(s) |-> IF k = Min(alphas) THEN to_upper(s[k]) ELSE s[k]]

\* The position of the last character of s that is not white space, 0
\* when there is none.
last_non_space(s) ==
    LET at == {k \in 1..Len(s) : ~is_space(s[k])}
    IN  IF at = {} THEN 0 ELSE Max(at)

\* `^(\s*-?\s*)name:`: the position of 'name:' after white space, an
\* optional dash and white space; 0 when the code does not start so.
name_key_at(c) ==
    LET n == ws_run(c, 1) + 1
        pos == IF n <= Len(c) /\ c[n] = "-" THEN n + 1 + ws_run(c, n + 1) ELSE n
    IN  IF occurs_at(c, pos, <<"n", "a", "m", "e", ":">>) THEN pos ELSE 0

\* `name:\s*(.+?)\s*$` with 'name:' at pos: the first and the last position
\* of the value (the lazy group ends at the last character that is not white
\* space; a value of white space only is its last character); <<0, 0>>
\* when nothing follows the colon.
name_value_span(c, pos) ==
    LET after == pos + 5
        vs == after + ws_run(c, after)
    IN  IF after > Len(c) THEN <<0, 0>>
        ELSE IF vs > Len(c) THEN <<Len(c), Len(c)>>
        ELSE <<vs, last_non_space(c)>>

fix_name_casing_in_line(l) ==
    LET cc == split_code_and_comment(l)
        c == cc[1]
        pos == name_key_at(c)
        span == name_value_span(c, pos)
        value == SubSeq(c, span[1], span[2])
    IN  IF pos = 0 \/ span[1] = 0 THEN l
        ELSE IF occurs_at(strip(value), 1, <<"{", "{">>) THEN l
        ELSE Before(c, pos) \o <<"n", "a", "m", "e", ":", SP>> \o capitalize_first_alpha(value) \o cc[2]

\* `^(?P<spaces>\s*)(?P<dash>-\s+)?(?P<mod>(?:ansible\.builtin\.)?<name>):`
\* for a module name: the lengths of the groups spaces, dash and mod, and
\* whether there is a match.
module_header(c, names) ==
    LET n == ws_run(c, 1)
        w == ws_run(c, n + 2)
        d == IF n + 1 <= Len(c) /\ c[n + 1] = "-" /\ w >= 1 THEN 1 + w ELSE 0
        at == n + d + 1
        mods == {nm \in names \cup {Builtin \o x : x \in names} :
                    occurs_at(c, at, nm \o <<":">>)}
    IN  IF mods = {} THEN [ok |-> FALSE, spaces |-> 0, dash |-> 0, mod |-> 0]
        ELSE [ok |-> TRUE, spaces |-> n, dash |-> d,
              mod |-> Len(CHOOSE nm \in mods : TRUE)]

\* convert_debug_free_form: None, or the header line and the msg line.
convert_debug_free_form(l) ==
    LET cc == split_code_and_comment(l)
        c == cc[1]
        h == module_header(c, { <<"d", "e", "b", "u", "g">> })
        colon == h.spaces + h.dash + h.mod + 1
        ms == colon + 1 + ws_run(c, colon + 1)
        vs == ms + 4
        ve == IF last_non_space(c) >= vs THEN last_non_space(c) ELSE vs
        spaces == SubSeq(c, 1, h.spaces)
        dash == SubSeq(c, h.spaces + 1, h.spaces + h.dash)
    IN  IF /\ h.ok
           /\ occurs_at(c, ms, <<"m", "s", "g", "=">>)
           /\ vs <= Len(c)
           /\ \A k \in vs..ve : c[k] \notin {HASH, NL}
        THEN << spaces \o dash \o Builtin \o <<"d", "e", "b", "u", "g", ":">> \o cc[2],
                spaces \o <<SP, SP>> \o <<"m", "s", "g", ":", SP>> \o rstrip(SubSeq(c, vs, ve)) >>
        ELSE None

\* `jinja_re = re.compile(r"\{\{[^}]*\}\}")` matched at position k of s: the
\* position of its last character, 0 when there is no match at k.
jinja_end(s, k) ==
    LET cl == index_from(s, k + 2, "}")
    IN  IF occurs_at(s, k, <<"{", "{">>) /\ cl # 0 /\ cl < Len(s) /\ s[cl + 1] = "}"
        THEN cl + 1 ELSE 0

\* jinja_re.findall(s) from position k on.
RECURSIVE jinja_findall(_, _)
jinja_findall(s, k) ==
    IF k > Len(s) THEN <<>>
    ELSE IF jinja_end(s, k) # 0
         THEN <<SubSeq(s, k, jinja_end(s, k))>> \o jinja_findall(s, jinja_end(s, k) + 1)
         ELSE jinja_findall(s, k + 1)

\* jinja_re.sub("", s) from position k on.
RECURSIVE jinja_removed(_, _)
jinja_removed(s, k) ==
    IF k > Len(s) THEN <<>>
    ELSE IF jinja_end(s, k) # 0 THEN jinja_removed(s, jinja_end(s, k) + 1)
         ELSE <<s[k]>> \o jinja_removed(s, k + 1)

\* `re.sub(r"\s+", " ", s)`
collapse_spaces(s) ==
    LET kept == {k \in 1..Len(s) : ~is_space(s[k]) \/ k = 1 \/ ~is_space(s[k - 1])}
    IN  Select([k \in 1..Len(s) |-> IF is_space(s[k]) THEN SP ELSE s[k]], kept)

rewrite_name_template_placement(l) ==
    LET cc == split_code_and_comment(l)
        c == cc[1]
        pos == name_key_at(c)
        span == name_value_span(c, pos)
        value == SubSeq(c, span[1], span[2])
        found == jinja_findall(value, 1)
        value_no_jinja == strip(collapse_spaces(jinja_removed(value, 1)))
        jinj == strip(join(<<SP>>, found))
        new_val == IF value_no_jinja # <<>>
                   THEN strip(value_no_jinja \o <<SP>> \o jinj)
                   ELSE jinj
    IN  IF pos = 0 \/ span[1] = 0 THEN l
        ELSE IF found = <<>> THEN l
        ELSE IF strip(jinja_removed(rstrip(value), 1)) = <<>> THEN l
        ELSE Before(c, span[1]) \o new_val \o cc[2]

\* The deny list of is_read_only_command.
Mutators ==
    { <<">", ">">>,
      <<">">>,
      <<"|", SP, "t", "e", "e">>,
      <<SP, "t", "e", "e", SP>>,
      <<"s", "e", "d", SP, "-", "i">>,
      <<"c", "h", "m", "o", "d">>,
      <<"c", "h", "o", "w", "n">>,
      <<"m", "k", "d", "i", "r">>,
      <<"r", "m", "d", "i", "r">>,
      <<"r", "m", SP>>,
      <<"m", "v", SP>>,
      <<"c", "p", SP>>,
      <<"t", "r", "u", "n", "c", "a", "t", "e">>,
      <<"d", "d", SP>>,
      <<"l", "n", SP>>,
      <<"s", "y", "s", "t", "e", "m", "c", "t", "l">>,
      <<"s", "e", "r", "v", "i", "c", "e", SP>>,
      <<"s", "u", "p", "e", "r", "v", "i", "s", "o", "r", "c", "t", "l">>,
      <<"t", "o", "u", "c", "h", SP>>,
      <<"u", "s", "e", "r", "m", "o", "d">>,
      <<"u", "s", "e", "r", "a", "d", "d">>,
      <<"g", "r", "o", "u", "p", "a", "d", "d">>,
      <<"m", "o", "d", "p", "r", "o", "b", "e">>,
      <<"y", "u", "m", SP>>,
      <<"a", "p", "t", SP>>,
      <<"d", "n", "f", SP>>,
      <<"p", "i", "p", SP>>,
      <<"g", "i", "t", SP>>,
      <<"c", "u", "r", "l", SP, "-", "o">>,
      <<"w", "g", "e", "t", SP, "-", "O">> }

\* The allow list of is_read_only_command.
Starters ==
    { <<"c", "a", "t">>,
      <<"g", "r", "e", "p">>,
      <<"e", "g", "r", "e", "p">>,
      <<"z", "g", "r", "e", "p">>,
      <<"h", "e", "a", "d">>,
      <<"t", "a", "i", "l">>,
      <<"a", "w", "k">>,
      <<"s", "e", "d", SP>>,
      <<"s", "t", "a", "t">>,
      <<"t", "e", "s", "t", SP>>,
      <<"[", SP>>,
      <<"t", "r", "u", "e">>,
      <<"f", "a", "l", "s", "e">>,
      <<"i", "d">>,
      <<"u", "n", "a", "m", "e">>,
      <<"w", "h", "i", "c", "h">>,
      <<"c", "o", "m", "m", "a", "n", "d", SP, "-", "v">>,
      <<"h", "o", "s", "t", "n", "a", "m", "e">>,
      <<"d", "a", "t", "e">>,
      <<"w", "h", "o", "a", "m", "i">>,
      <<"u", "p", "t", "i", "m", "e">>,
      <<"s", "y", "s", "c", "t", "l", SP, "-", "n">>,
      <<"l", "s", SP>>,
      <<"f", "i", "n", "d", SP>>,
      <<"e", "c", "h", "o", SP>> }

is_read_only_command(cmd) ==
    LET lc == strip(cmd)
    IN  /\ \A m \in Mutators : ~contains(lc, m)
        /\ \E st \in Starters : occurs_at(lc, 1, st)

\* convert_shell_command_free_form_add_changed_when: None, or the header
\* line, the cmd line and the changed_when line.
convert_shell_command_free_form_add_changed_when(l) ==
    LET cc == split_code_and_comment(l)
        c == cc[1]
        h == module_header(c, { <<"s", "h", "e", "l", "l">>, <<"c", "o", "m", "m", "a", "n", "d">> })
        colon == h.spaces + h.dash + h.mod + 1
        vs == colon + 1 + ws_run(c, colon + 1)
        first == IF vs > Len(c) THEN Len(c) ELSE vs
        val == rstrip(SubSeq(c, first, IF vs > Len(c) THEN Len(c) ELSE last_non_space(c)))
        spaces == SubSeq(c, 1, h.spaces)
    IN  IF /\ h.ok
           /\ colon < Len(c)
           /\ \A k \in first..Len(c) : c[k] \notin {HASH, NL} \/ k > last_non_space(c)
           /\ is_read_only_command(val)
        THEN << SubSeq(c, 1, colon) \o cc[2],
                spaces \o <<SP, SP>> \o <<"c", "m", "d", ":", SP>> \o val,
                spaces \o <<SP, SP>> \o <<"c", "h", "a", "n", "g", "e", "d", "_", "w", "h", "e", "n", ":", SP,
        "f", "a", "l", "s", "e">> >>
        ELSE None

\* `[\w.]`
is_word_or_dot(ch) ==
    is_alpha(ch) \/ ch \in {"0", "1", "2", "3", "4", "5", "6", "7", "8", "9", "_", "."}

\* str.title(): a letter is upper-cased after a character that is not a
\* letter, and lower-cased after a letter.
title(s) ==
    [k \in 1..Len(s) |->
        IF k > 1 /\ is_alpha(s[k - 1]) THEN to_lower(s[k]) ELSE to_upper(s[k])]

\* add_missing_name_after_module: the lines to inject, None when there are
\* none (the code itself is returned as it is).
add_missing_name_after_module(c, name_seen, in_tasks) ==
    LET n == ws_run(c, 1)
        ms == n + 2 + ws_run(c, n + 2)
        ends == {e \in ms..Len(c) : \A k \in ms..e : is_word_or_dot(c[k])}
        me == IF ends = {} THEN 0 ELSE Max(ends)
        token == SubSeq(c, ms, me)
        dots == {k \in 1..Len(token) : token[k] = "."}
        module == IF dots = {} THEN token ELSE From(token, Max(dots) + 1)
    IN  IF /\ n + 1 <= Len(c) /\ c[n + 1] = "-"
           /\ me # 0
           /\ me < Len(c) /\ c[me + 1] = ":"
           /\ (me + 1 = Len(c) \/ is_space(c[me + 2]))
           /\ in_tasks /\ ~name_seen
        THEN << SubSeq(c, 1, n) \o <<SP, SP>> \o <<"n", "a", "m", "e", ":", SP>>
                \o title(replace_all(module, <<"_">>, <<SP>>)) >>
        ELSE None

\* ------------------------------------------------------------------------
\* fix_ansible_lint_easy.fix_file

\* The body of `for i, line in enumerate(lines)` for the code c and the
\* comment cmt of the line ln: the lines appended to `out` and the loop
\* variables as the iteration leaves them.  The FQCN replacements
\* replace_fqcn_module_token and replace_fqcn_module_at_indent are the two
\* of fix_fqcn.
easy_fixed_code(ln, c, cmt, st) ==
    LET stripped == strip(c)
        line_indent == leading_spaces(c)
        is_tasks == stripped = <<"t", "a", "s", "k", "s", ":">>
        dedented == /\ ~is_tasks
                    /\ st.in_tasks /\ st.tasks_indent # NoIndent /\ stripped # <<>>
                    /\ line_indent <= st.tasks_indent
                    /\ leading_spaces(c) < st.tasks_indent + 1
        in_tasks1 == IF is_tasks THEN TRUE ELSE IF dedented THEN FALSE ELSE st.in_tasks
        tasks_indent1 == IF is_tasks THEN line_indent
                         ELSE IF dedented THEN NoIndent ELSE st.tasks_indent
        indent1 == IF m_dash(c) THEN m_dash_indent(c) + 2 ELSE st.task_key_indent
        seen1 == IF in_tasks1 /\ name_key_at(c) # 0 THEN TRUE
                 ELSE IF m_dash(c) THEN FALSE ELSE st.name_seen
        token == replace_after_dash(c).code
        c2 == IF token = c /\ indent1 # NoIndent /\ stripped # <<>> /\ Head(stripped) # HASH
              THEN replace_fqcn_in_line_at_indent(token, indent1)
              ELSE token
        state(seen) == [task_key_indent |-> indent1, in_tasks |-> in_tasks1,
                        tasks_indent |-> tasks_indent1, name_seen |-> seen]
    IN  CHOOSE r \in
            { IF multi # None THEN [out |-> multi, st |-> state(seen1)]
              ELSE IF multi_sc # None THEN [out |-> multi_sc, st |-> state(seen1)]
              ELSE IF inject # None
                   THEN [out |-> <<replaced \o cmt>> \o inject, st |-> state(TRUE)]
              ELSE [out |-> <<fixed_line>>,
                    st |-> state(IF fixed_line # replaced \o cmt THEN TRUE ELSE seen1)] :
              multi \in {convert_debug_free_form(ln)},
              multi_sc \in {convert_shell_command_free_form_add_changed_when(ln)},
              replaced \in {c2},
              inject \in {add_missing_name_after_module(c2, seen1, in_tasks1)},
              fixed_line \in {fix_name_casing_in_line(
                                  rewrite_name_template_placement(c2 \o cmt))} } : TRUE

\* `code, comment = split_code_and_comment(line)`, then the body.
easy_fixed_line(ln, st) ==
    CHOOSE r \in {easy_fixed_code(ln, cc[1], cc[2], st) :
                      cc \in {split_code_and_comment(ln)}} : TRUE

\* The loop from line k on, `out` and the loop variables being as the lines
\* before k left them.
RECURSIVE easy_fixed_lines(_, _, _, _)
easy_fixed_lines(lines, k, st, out) ==
    IF k > Len(lines) THEN out
    ELSE CHOOSE res \in {easy_fixed_lines(lines, k + 1, r.st, out \o r.out) :
                             r \in {easy_fixed_line(lines[k], st)}} : TRUE

\* The loop variables before the first line.
EasyStart ==
    [task_key_indent |-> NoIndent, in_tasks |-> FALSE, tasks_indent |-> NoIndent,
     name_seen |-> FALSE]

\* fix_ansible_lint_easy.fix_file
easy_fix_file(bytes) ==
    CHOOSE r \in
        { LET new == IF endswith_newline(original) /\ ~endswith_newline(joined)
                     THEN joined \o <<NL>> ELSE joined
          IN  IF new # original
              THEN FileResult(bytes, original, TRUE, new, TRUE)
              ELSE FileResult(bytes, original, FALSE, new, FALSE) :
          original \in {read_text(bytes)},
          joined \in {join(<<NL>>, easy_fixed_lines(lines, 1, EasyStart, <<>>)) :
                          lines \in {splitlines(read_text(bytes))}} } : TRUE

\* ------------------------------------------------------------------------
\* fix_ansible_lint_easy: calls of the line functions

\* What the lines given to the line functions are made of.
EasyPieces ==
    { <<"-">>, <<SP>>, <<"n", "a", "m", "e", ":">>, <<"d", "e", "b", "u", "g", ":">>,
      <<"m", "s", "g", "=">>, <<"a">>, <<"{", "{">>, <<HASH>> }

\* '- debug: msg=hi', '  debug: msg=hi # c', '-   debug: msg=x', '- name: foo  # c', 'name:   foo', '  name: {{ x }}',
\* '- name: a {{ x }} b', '- shell: cat x', '  command: rm x', '- name:  ', '- name: 1abc'.
EasyExamples ==
    { <<"-", SP, "d", "e", "b", "u", "g", ":", SP, "m", "s", "g", "=", "h",
        "i">>,
      <<SP, SP, "d", "e", "b", "u", "g", ":", SP, "m", "s", "g", "=", "h",
        "i", SP, HASH, SP, "c">>,
      <<"-", SP, SP, SP, "d", "e", "b", "u", "g", ":", SP, "m", "s", "g",
        "=", "x">>,
      <<"-", SP, "n", "a", "m", "e", ":", SP, "f", "o", "o", SP, SP, HASH,
        SP, "c">>,
      <<"n", "a", "m", "e", ":", SP, SP, SP, "f", "o", "o">>,
      <<SP, SP, "n", "a", "m", "e", ":", SP, "{", "{", SP, "x", SP, "}", "}">>,
      <<"-", SP, "n", "a", "m", "e", ":", SP, "a", SP, "{", "{", SP, "x", SP,
        "}", "}", SP, "b">>,
      <<"-", SP, "s", "h", "e", "l", "l", ":", SP, "c", "a", "t", SP, "x">>,
      <<SP, SP, "c", "o", "m", "m", "a", "n", "d", ":", SP, "r", "m", SP,
        "x">>,
      <<"-", SP, "n", "a", "m", "e", ":", SP, SP>>,
      <<"-", SP, "n", "a", "m", "e", ":", SP, "1", "a", "b", "c">> }

EasyLines == LinesOf(EasyPieces, MaxEasyPieces) \cup EasyExamples

InitEasy == InitCall(EasyLines)

FixNameCasingInLine == Call("fix_name_casing_in_line", fix_name_casing_in_line(call_arg))

ConvertDebugFreeForm == Call("convert_debug_free_form", convert_debug_free_form(call_arg))

RewriteNameTemplatePlacement ==
    Call("rewrite_name_template_placement", rewrite_name_template_placement(call_arg))

ConvertShellCommandFreeForm ==
    Call("convert_shell_command_free_form_add_changed_when",
         convert_shell_command_free_form_add_changed_when(call_arg))

NextEasy ==
    \/ FixNameCasingInLine
    \/ ConvertDebugFreeForm
    \/ RewriteNameTemplatePlacement
    \/ ConvertShellCommandFreeForm

SpecEasy == InitEasy /\ [][NextEasy]_vars

\* The column (counted from 0) at which the module key starts on a header
\* line that convert_debug_free_form returns.
ModuleKeyColumn(header) ==
    Min({k \in 1..Len(header) : occurs_at(header, k, Builtin \o <<"d", "e", "b", "u", "g", ":">>)}) - 1

\* C28: when convert_debug_free_form converts a line, the msg: line is
\* indented strictly deeper than the column at which the module key starts
\* on the header line, with a dash before the key and without one.
C28_MsgDeeperThanModuleKey ==
    (call_fn = "convert_debug_free_form" /\ call_ret # None) =>
        ws_run(call_ret[2], 1) > ModuleKeyColumn(call_ret[1])

\* C29: fix_name_casing_in_line returns the line with at most one character
\* changed, and that one only in its case: every other character, white
\* space before a comment included, is kept.
C29_OnlyCaseOfOneCharacterChanges ==
    call_fn = "fix_name_casing_in_line" =>
        /\ Len(call_ret) = Len(call_arg)
        /\ \A j, k \in 1..Len(call_arg) :
               (call_ret[j] # call_arg[j] /\ call_ret[k] # call_arg[k]) => j = k
        /\ \A k \in 1..Len(call_arg) : to_lower(call_ret[k]) = to_lower(call_arg[k])

\* ------------------------------------------------------------------------
\* fix_ansible_lint_easy.fix_file, applied to a file and again to what it
\* wrote

\* Lines of a playbook: 'tasks:', '  - copy: x', '  - name: a', '    copy: x', '  - debug: msg=hi',
\* '  - shell: cat x', 'vars:', '    name: {{ x }} b # c'.
EasyLineChoices ==
    { <<"t", "a", "s", "k", "s", ":">>,
      <<SP, SP, "-", SP, "c", "o", "p", "y", ":", SP, "x">>,
      <<SP, SP, "-", SP, "n", "a", "m", "e", ":", SP, "a">>,
      <<SP, SP, SP, SP, "c", "o", "p", "y", ":", SP, "x">>,
      <<SP, SP, "-", SP, "d", "e", "b", "u", "g", ":", SP, "m", "s", "g",
        "=", "h", "i">>,
      <<SP, SP, "-", SP, "s", "h", "e", "l", "l", ":", SP, "c", "a", "t", SP,
        "x">>,
      <<"v", "a", "r", "s", ":">>,
      <<SP, SP, SP, SP, "n", "a", "m", "e", ":", SP, "{", "{", SP, "x", SP,
        "}", "}", SP, "b", SP, HASH, SP, "c">> }

\* Files of up to MaxEasyLines lines, each ended by a newline.
EasyFiles ==
    {join(<<NL>>, lines) \o <<NL>> : lines \in SeqsUpTo(EasyLineChoices, MaxEasyLines) \ {<<>>}}

InitEasyFile == InitCall(EasyFiles)

\* fix_file on the file first, then on the content the run before left.
EasyFixFile ==
    /\ Len(call_ret) < MaxApply
    /\ LET bytes == IF call_ret = <<>> THEN call_arg ELSE call_ret[Len(call_ret)].disk
       IN  call_ret' = Append(call_ret, easy_fix_file(bytes))
    /\ call_fn' = "fix_ansible_lint_easy.fix_file"
    /\ UNCHANGED <<call_arg, scanvars, walkvars, docvars, nlvars, mainvars>>

NextEasyFile == EasyFixFile

SpecEasyFile == InitEasyFile /\ [][NextEasyFile]_vars

\* C22: running fix_ansible_lint_easy.fix_file a second time, on the output
\* of the first run, changes nothing: it writes nothing and the file is as
\* the first run left it.
C22_SecondRunChangesNothing ==
    Len(call_ret) = 2 =>
        /\ ~call_ret[2].wrote
        /\ ~call_ret[2].ret
        /\ call_ret[2].disk = call_ret[1].disk

====
